---- MODULE Spec2Model ----
(***************************************************************************)
(* A model of lattice-base: the Lattice of tasks (model.py), the graph     *)
(* algorithms (graph.py, lattice/io.py) and the commands of cli.py:        *)
(*   Spec          `lattice test --complete` (_main_test_complete)         *)
(*   SpecGraph     topological_sort, topo_sort, iter_edges,                *)
(*                 build_dependency_graph and detect_cycles                *)
(*   SpecReady     compute_ready_tasks                                     *)
(*   SpecSingle    `lattice test --task` (_main_test_single)               *)
(*   SpecValidate  `lattice validate` (main_validate)                      *)
(*   SpecNext      `lattice next` (main_next)                              *)
(*   SpecVerify    both modes of `lattice test`                            *)
(*   SpecLoad      load_lattice of io.py and of lattice/io.py              *)
(*   SpecInit      `lattice init` (main_init)                              *)
(*   SpecTermination  the loops of topological_sort and detect_cycles and  *)
(*                 one whole-lattice run, step by step, with fairness      *)
(***************************************************************************)
EXTENDS Integers, Sequences, FiniteSets, TLC

(***************************************************************************)
(* Bounds of the model.                                                    *)
(***************************************************************************)
\* Total number of depends_on entries in a lattice Init draws.
MaxEdges == 2
\* Number of consecutive whole-lattice runs the model follows.
MaxRuns == 3
\* Exit codes of a test command range over 0..MaxExit.
MaxExit == 2
\* Total number of depends_on entries in a lattice handed to the sort functions.
MaxSortEdges == 3

(***************************************************************************)
(* The data model (model.py).                                              *)
(***************************************************************************)
\* Optional[...] = None
None == "None"
Status == {"suggested", "design", "planned", "in-progress", "done", "blocked"}
Kind == {"task", "epic", "subproject", "completion"}

\* The ids a lattice of the model may use, in the order its tasks are listed.
AllIds == <<"a", "b", "c">>
Ids == {AllIds[k] : k \in DOMAIN AllIds}

\* The exit codes subprocess.run may return.
ExitCodes == 0..MaxExit

Task(id, kind, status, depends_on, test) ==
    [id |-> id, kind |-> kind, status |-> status,
     depends_on |-> depends_on, test |-> test]

Contains(seq, x) == \E k \in DOMAIN seq : seq[k] = x

\* The keys of Lattice.task_index(): the ids of the tasks.
index_keys(tasks) == {tasks[k].id : k \in DOMAIN tasks}

\* Lattice.task_index(): {t.id: t for t in self.tasks}; a later task with the
\* same id replaces an earlier one.  The value is the task's place in tasks.
task_index(tasks) ==
    [d \in index_keys(tasks) |->
        CHOOSE k \in DOMAIN tasks :
            /\ tasks[k].id = d
            /\ \A m \in DOMAIN tasks : tasks[m].id = d => m <= k]

\* The order in which a dict built from tasks lists its keys: each id at the
\* place of its first occurrence.
RECURSIVE key_order_from(_, _, _)
key_order_from(tasks, k, acc) ==
    IF k > Len(tasks) THEN acc
    ELSE key_order_from(tasks, k + 1,
            IF Contains(acc, tasks[k].id) THEN acc ELSE Append(acc, tasks[k].id))

key_order(tasks) == key_order_from(tasks, 1, <<>>)

(***************************************************************************)
(* graph.py: topological_sort (Kahn's algorithm).                          *)
(***************************************************************************)
\* A slip in lines 46-48: a task's count is raised once, however many of its
\* dependencies are keys.
RECURSIVE count_incoming_once(_, _, _)
count_incoming_once(tasks, k, incoming) ==
    IF k > Len(tasks) THEN incoming
    ELSE LET t == tasks[k]
             n == IF \E j \in DOMAIN t.depends_on : t.depends_on[j] \in DOMAIN incoming
                  THEN 1 ELSE 0
         IN count_incoming_once(tasks, k + 1, [incoming EXCEPT ![t.id] = @ + n])

\* A slip in line 47: a task's dependency on itself is not counted.
RECURSIVE count_incoming_skip_self(_, _, _)
count_incoming_skip_self(tasks, k, incoming) ==
    IF k > Len(tasks) THEN incoming
    ELSE LET t == tasks[k]
             n == Cardinality({j \in DOMAIN t.depends_on :
                                  /\ t.depends_on[j] \in DOMAIN incoming
                                  /\ t.depends_on[j] # t.id})
         IN count_incoming_skip_self(tasks, k + 1, [incoming EXCEPT ![t.id] = @ + n])

\* Lines 45-48: incoming[t.id] += 1 for every depends_on entry that is a key.
RECURSIVE count_incoming(_, _, _)
count_incoming(tasks, k, incoming) ==
    IF k > Len(tasks) THEN incoming
    ELSE LET t == tasks[k]
             n == Cardinality({j \in DOMAIN t.depends_on :
                                  t.depends_on[j] \in DOMAIN incoming})
         IN count_incoming(tasks, k + 1, [incoming EXCEPT ![t.id] = @ + n])

\* Line 51: the ids with no incoming edge, in key order.
RECURSIVE zero_incoming(_, _, _)
zero_incoming(keys, k, incoming) ==
    IF k > Len(keys) THEN <<>>
    ELSE (IF incoming[keys[k]] = 0 THEN <<keys[k]>> ELSE <<>>)
         \o zero_incoming(keys, k + 1, incoming)

\* Lines 57-61: for t in lat.tasks: if n in t.depends_on: decrement, enqueue at 0.
RECURSIVE relax(_, _, _, _, _)
relax(tasks, n, k, incoming, queue) ==
    IF k > Len(tasks) THEN [incoming |-> incoming, queue |-> queue]
    ELSE LET t == tasks[k] IN
         IF Contains(t.depends_on, n)
         THEN LET dec == [incoming EXCEPT ![t.id] = @ - 1] IN
              relax(tasks, n, k + 1, dec,
                    IF dec[t.id] = 0 THEN Append(queue, t.id) ELSE queue)
         ELSE relax(tasks, n, k + 1, incoming, queue)

\* Lines 54-61: while queue: n = queue.pop(); result.append(n); ...
RECURSIVE kahn(_, _, _, _)
kahn(tasks, incoming, queue, result) ==
    IF queue = <<>> THEN result
    ELSE LET n == queue[Len(queue)]
             r == relax(tasks, n, 1, incoming, SubSeq(queue, 1, Len(queue) - 1))
         IN kahn(tasks, r.incoming, r.queue, Append(result, n))

\* A slip in lines 63-64: the length check is missing and a partial order is returned.
topological_sort_no_check(tasks) ==
    LET keys == key_order(tasks)
        incoming == count_incoming(tasks, 1, [d \in index_keys(tasks) |-> 0])
    IN [raised |-> FALSE,
        order |-> kahn(tasks, incoming, zero_incoming(keys, 1, incoming), <<>>)]
\* A slip in lines 54-61: every task is appended to the order a second time.
topological_sort_repeats(tasks) ==
    LET keys == key_order(tasks)
        incoming == count_incoming(tasks, 1, [d \in index_keys(tasks) |-> 0])
        sorted == kahn(tasks, incoming, zero_incoming(keys, 1, incoming), <<>>)
    IN IF Len(sorted) # Cardinality(index_keys(tasks))
       THEN [raised |-> TRUE, order |-> <<>>]
       ELSE [raised |-> FALSE, order |-> sorted \o sorted]

\* A slip in cli.py, line 390: pass 2 walks the tasks in the order of the file.
topological_sort_file_order(tasks) ==
    [raised |-> FALSE, order |-> key_order(tasks)]

\* topological_sort(lat): raised is the ValueError of line 64.
topological_sort(tasks) ==
    LET keys == key_order(tasks)
        incoming == count_incoming(tasks, 1, [d \in index_keys(tasks) |-> 0])
        result == kahn(tasks, incoming, zero_incoming(keys, 1, incoming), <<>>)
    IN IF Len(result) # Cardinality(index_keys(tasks))
       THEN [raised |-> TRUE, order |-> <<>>]
       ELSE [raised |-> FALSE, order |-> result]

(***************************************************************************)
(* cli.py: _main_test_complete, the whole-lattice verification run.        *)
(***************************************************************************)
VARIABLES
    lat,                  \* lat.tasks, the lattice in memory
    disk,                 \* the tasks stored in project.yaml
    pc,                   \* where the operation is: start, pass1, pass2, done, ...
    order,                \* the topological order computed up front
    i,                    \* position of the running for-loop
    initial_status,       \* the snapshot of line 355
    demoted_due_to_deps,  \* the set of line 368
    any_fail,
    changed,
    result,               \* the value returned, -1 before the run returns
    log,                  \* what the run has done so far, in order
    loaded,               \* the lattice as load_lattice returned it to this run
    run,                  \* how many runs have been started
    prev,                 \* what the previous run did: none, demoted, clean
    out                   \* what the operation called last returned or reported

vars == <<lat, disk, pc, order, i, initial_status, demoted_due_to_deps,
          any_fail, changed, result, log, loaded, run, prev, out>>

\* No test command: Task.normalize_test turns a blank string into None.
NoTest == None
\* kind in ("task", "completion")
Verifiable == {"task", "completion"}

\* The task object idx[tid].
task_of(tasks, tid) == tasks[task_index(tasks)[tid]]

\* t.status = s on the task object idx[tid], which is an element of lat.tasks.
set_status(tasks, tid, s) ==
    [tasks EXCEPT ![task_index(tasks)[tid]].status = s]

\* Line 355: {tid: t.status for tid, t in idx.items()}
snapshot(tasks) == [d \in index_keys(tasks) |-> task_of(tasks, d).status]

\* A slip in lines 359-361: a dependency that is no task is passed over.
deps_done_snapshot_skip_missing(tasks, snap, t) ==
    \A k \in DOMAIN t.depends_on :
        LET d == t.depends_on[k] IN
        d \in index_keys(tasks) => snap[d] = "done"

\* Lines 357-364.
deps_done_snapshot(tasks, snap, t) ==
    \A k \in DOMAIN t.depends_on :
        LET d == t.depends_on[k] IN
        /\ d \in index_keys(tasks)
        /\ snap[d] = "done"

\* A slip in lines 383-385: a dependency that is no task is passed over.
deps_done_current_skip_missing(tasks, t) ==
    \A k \in DOMAIN t.depends_on :
        LET d == t.depends_on[k] IN
        d \in index_keys(tasks) => task_of(tasks, d).status = "done"

\* Lines 381-388.
deps_done_current(tasks, t) ==
    \A k \in DOMAIN t.depends_on :
        LET d == t.depends_on[k] IN
        /\ d \in index_keys(tasks)
        /\ task_of(tasks, d).status = "done"

\* What the run leaves in the log.
Wrote(tid, s) == [ev |-> "status", id |-> tid, arg |-> s]
Ran(tid, exit_code) ==
    [ev |-> "run", id |-> tid, arg |-> IF exit_code = 0 THEN "pass" ELSE "fail"]
Gated(tid) == [ev |-> "gate", id |-> tid, arg |-> None]
Saved == [ev |-> "save", id |-> None, arg |-> None]

(***************************************************************************)
(* The lattices a run starts from: the tasks a, b, c or a prefix of them   *)
(* (ids unique), each with a status and a depends_on list over a, b, c.    *)
(* An id whose task is not in the lattice is a dangling reference, and an  *)
(* id may be listed twice.  The tasks are plain tasks with a test command, *)
(* except the last one listed, which has any kind, with or without a test  *)
(* command.                                                                *)
(***************************************************************************)
InitStatus == {None, "done"}
InitTest == {"sh", NoTest}

DepSeqs == UNION {[1..n -> Ids] : n \in 0..MaxEdges}

RECURSIVE total_len(_, _)
total_len(f, n) == IF n = 0 THEN 0 ELSE Len(f[n]) + total_len(f, n - 1)

DepConfigs(n) == {f \in [1..n -> DepSeqs] : total_len(f, n) <= MaxEdges}

Init ==
    /\ \E n \in 0..Len(AllIds) :
         \E dp \in DepConfigs(n), st \in [1..n -> InitStatus],
            kind \in Kind, test \in InitTest :
            lat = [k \in 1..n |->
                     IF k = n THEN Task(AllIds[k], kind, st[k], dp[k], test)
                     ELSE Task(AllIds[k], "task", st[k], dp[k], "sh")]
    /\ disk = lat
    /\ loaded = lat
    /\ pc = "start"
    /\ order = <<>>
    /\ i = 0
    /\ initial_status = <<>>
    /\ demoted_due_to_deps = {}
    /\ any_fail = FALSE
    /\ changed = FALSE
    /\ result = -1
    /\ log = <<>>
    /\ run = 1
    /\ prev = "none"
    /\ out = None

\* Lines 344-349: topological_sort raised; the run reports the cycle and returns 1.
StartCycle ==
    /\ pc = "start"
    /\ topological_sort(lat).raised
    /\ result' = 1
    /\ pc' = "done"
    /\ UNCHANGED <<lat, disk, order, i, initial_status, demoted_due_to_deps,
                   any_fail, changed, log, loaded, run, prev, out>>

\* Lines 344-355 and 368: the order, the flags and the snapshot.
StartSorted ==
    /\ pc = "start"
    /\ ~topological_sort(lat).raised
    /\ order' = topological_sort(lat).order
    /\ any_fail' = FALSE
    /\ changed' = FALSE
    /\ initial_status' = snapshot(lat)
    /\ demoted_due_to_deps' = {}
    /\ i' = 1
    /\ pc' = "pass1"
    /\ UNCHANGED <<lat, disk, result, log, loaded, run, prev, out>>

\* Line 372: the task claims to be done but its dependencies were not, in the snapshot.
stale_done(tasks, snap, tid) ==
    /\ task_of(tasks, tid).kind \in Verifiable
    /\ snap[tid] = "done"
    /\ ~deps_done_snapshot(tasks, snap, task_of(tasks, tid))

\* Lines 369-379, one iteration that demotes.
Pass1Demote ==
    /\ pc = "pass1"
    /\ i <= Len(key_order(lat))
    /\ LET tid == key_order(lat)[i] IN
        /\ stale_done(lat, initial_status, tid)
        /\ lat' = set_status(lat, tid, "planned")
        /\ demoted_due_to_deps' = demoted_due_to_deps \cup {tid}
        /\ changed' = TRUE
        /\ log' = Append(log, Wrote(tid, "planned"))
    /\ i' = i + 1
    /\ UNCHANGED <<disk, pc, order, initial_status, any_fail, result, loaded,
                   run, prev, out>>

\* Lines 369-372, one iteration that leaves the task alone.
Pass1Keep ==
    /\ pc = "pass1"
    /\ i <= Len(key_order(lat))
    /\ ~stale_done(lat, initial_status, key_order(lat)[i])
    /\ i' = i + 1
    /\ UNCHANGED <<lat, disk, pc, order, initial_status, demoted_due_to_deps,
                   any_fail, changed, result, log, loaded, run, prev, out>>

\* The first loop is over; line 391 starts the second.
Pass1Exit ==
    /\ pc = "pass1"
    /\ i > Len(key_order(lat))
    /\ pc' = "pass2"
    /\ i' = 1
    /\ UNCHANGED <<lat, disk, order, initial_status, demoted_due_to_deps,
                   any_fail, changed, result, log, loaded, run, prev, out>>

\* A slip in lines 394-395: the kind of the task is not looked at.
testable_any_kind(t) == t.test # NoTest

\* Lines 394-397: only a task or completion with a test command is tested.
testable(t) == t.kind \in Verifiable /\ t.test # NoTest

\* A slip in line 401: the set of pass 1 is not consulted.
was_demoted_never(demoted, tid) == FALSE

\* Line 401.
was_demoted(demoted, tid) == tid \in demoted

\* A slip in line 438: a failing done task is demoted to planned.
after_test_fail_planned(status, exit_code) ==
    IF exit_code = 0 THEN "done"
    ELSE IF status = "done" THEN "planned" ELSE status

\* Lines 423-442: the status the task has after its test exited with exit_code.
after_test(status, exit_code) ==
    IF exit_code = 0 THEN "done"
    ELSE IF status = "done" THEN "in-progress" ELSE status

\* Lines 394-395: continue.
Pass2SkipKind ==
    /\ pc = "pass2"
    /\ i <= Len(order)
    /\ task_of(lat, order[i]).kind \notin Verifiable
    /\ i' = i + 1
    /\ UNCHANGED <<lat, disk, pc, order, initial_status, demoted_due_to_deps,
                   any_fail, changed, result, log, loaded, run, prev, out>>

\* Lines 396-397: continue.
Pass2SkipNoTest ==
    /\ pc = "pass2"
    /\ i <= Len(order)
    /\ task_of(lat, order[i]).kind \in Verifiable
    /\ ~testable(task_of(lat, order[i]))
    /\ i' = i + 1
    /\ UNCHANGED <<lat, disk, pc, order, initial_status, demoted_due_to_deps,
                   any_fail, changed, result, log, loaded, run, prev, out>>

\* Lines 401-405: demoted in the first pass, skipped entirely.
Pass2SkipDemoted ==
    /\ pc = "pass2"
    /\ i <= Len(order)
    /\ testable(task_of(lat, order[i]))
    /\ was_demoted(demoted_due_to_deps, order[i])
    /\ i' = i + 1
    /\ UNCHANGED <<lat, disk, pc, order, initial_status, demoted_due_to_deps,
                   any_fail, changed, result, log, loaded, run, prev, out>>

\* Lines 409-417: a dependency is not done now; demote a done task, skip the test.
Pass2DepsNotDone ==
    /\ pc = "pass2"
    /\ i <= Len(order)
    /\ LET tid == order[i]
           t == task_of(lat, tid)
       IN /\ testable(t)
          /\ ~was_demoted(demoted_due_to_deps, tid)
          /\ ~deps_done_current(lat, t)
          /\ IF t.status = "done"
             THEN /\ lat' = set_status(lat, tid, "planned")
                  /\ changed' = TRUE
                  /\ log' = log \o <<Gated(tid), Wrote(tid, "planned")>>
             ELSE /\ log' = Append(log, Gated(tid))
                  /\ UNCHANGED <<lat, changed>>
    /\ i' = i + 1
    /\ UNCHANGED <<disk, pc, order, initial_status, demoted_due_to_deps,
                   any_fail, result, loaded, run, prev, out>>

\* Lines 419-442: run the test command and act on its exit code.
Pass2RunTest ==
    /\ pc = "pass2"
    /\ i <= Len(order)
    /\ LET tid == order[i]
           t == task_of(lat, tid)
       IN /\ testable(t)
          /\ ~was_demoted(demoted_due_to_deps, tid)
          /\ deps_done_current(lat, t)
          /\ \E exit_code \in ExitCodes :
                LET s == after_test(t.status, exit_code) IN
                /\ any_fail' = (any_fail \/ exit_code # 0)
                /\ IF s # t.status
                   THEN /\ lat' = set_status(lat, tid, s)
                        /\ changed' = TRUE
                        /\ log' = log \o <<Ran(tid, exit_code), Wrote(tid, s)>>
                   ELSE /\ log' = Append(log, Ran(tid, exit_code))
                        /\ UNCHANGED <<lat, changed>>
    /\ i' = i + 1
    /\ UNCHANGED <<disk, pc, order, initial_status, demoted_due_to_deps,
                   result, loaded, run, prev, out>>

\* A slip in line 444: the lattice is saved whether or not anything changed.
Finish_always_saves ==
    /\ pc = "pass2"
    /\ i > Len(order)
    /\ disk' = lat
    /\ log' = Append(log, Saved)
    /\ result' = IF any_fail THEN 1 ELSE 0
    /\ pc' = "done"
    /\ UNCHANGED <<lat, order, i, initial_status, demoted_due_to_deps,
                   any_fail, changed, loaded, run, prev, out>>

\* A slip in lines 444-445: the changed lattice is not saved.
Finish_never_saves ==
    /\ pc = "pass2"
    /\ i > Len(order)
    /\ result' = IF any_fail THEN 1 ELSE 0
    /\ pc' = "done"
    /\ UNCHANGED <<lat, disk, log, order, i, initial_status, demoted_due_to_deps,
                   any_fail, changed, loaded, run, prev, out>>

\* A slip after line 432: the walk stops at the first failing test.
Finish_on_first_failure ==
    /\ pc = "pass2"
    /\ (i > Len(order) \/ any_fail)
    /\ IF changed
       THEN disk' = lat /\ log' = Append(log, Saved)
       ELSE UNCHANGED <<disk, log>>
    /\ result' = IF any_fail THEN 1 ELSE 0
    /\ pc' = "done"
    /\ UNCHANGED <<lat, order, i, initial_status, demoted_due_to_deps,
                   any_fail, changed, loaded, run, prev, out>>

\* Lines 444-448: save once if anything changed, return 1 if a test failed.
Finish ==
    /\ pc = "pass2"
    /\ i > Len(order)
    /\ IF changed
       THEN disk' = lat /\ log' = Append(log, Saved)
       ELSE UNCHANGED <<disk, log>>
    /\ result' = IF any_fail THEN 1 ELSE 0
    /\ pc' = "done"
    /\ UNCHANGED <<lat, order, i, initial_status, demoted_due_to_deps,
                   any_fail, changed, loaded, run, prev, out>>

\* Some status was lowered in the run the log records.
Demotions(l) == {k \in DOMAIN l : l[k].ev = "status" /\ l[k].arg # "done"}

\* main_test again (lines 291-294): the next invocation loads project.yaml and
\* runs --complete on it.  The model follows a run by another one only when no
\* test command of the run failed, and at most MaxRuns runs in all.
Rerun ==
    /\ pc = "done"
    /\ ~any_fail
    /\ run < MaxRuns
    /\ lat' = disk
    /\ loaded' = disk
    /\ run' = run + 1
    /\ prev' = IF Demotions(log) # {} THEN "demoted" ELSE "clean"
    /\ pc' = "start"
    /\ order' = <<>>
    /\ i' = 0
    /\ initial_status' = <<>>
    /\ demoted_due_to_deps' = {}
    /\ any_fail' = FALSE
    /\ changed' = FALSE
    /\ result' = -1
    /\ log' = <<>>
    /\ UNCHANGED <<disk, out>>

Next ==
    \/ StartCycle
    \/ StartSorted
    \/ Pass1Demote
    \/ Pass1Keep
    \/ Pass1Exit
    \/ Pass2SkipKind
    \/ Pass2SkipNoTest
    \/ Pass2SkipDemoted
    \/ Pass2DepsNotDone
    \/ Pass2RunTest
    \/ Finish
    \/ Rerun

Spec == Init /\ [][Next]_vars

(***************************************************************************)
(* Vocabulary of the properties: what a log records and what a lattice is, *)
(* stated without the run's own helpers.                                   *)
(***************************************************************************)
\* The ids whose test command the run has executed, and those whose test failed.
RunIds(l) == {l[k].id : k \in {j \in DOMAIN l : l[j].ev = "run"}}
FailedIds(l) == {l[k].id : k \in {j \in DOMAIN l : l[j].ev = "run" /\ l[j].arg = "fail"}}
Saves(l) == Cardinality({k \in DOMAIN l : l[k].ev = "save"})

\* The status of the task with id d.
StatusOf(tasks, d) == tasks[CHOOSE k \in DOMAIN tasks : tasks[k].id = d].status
TaskIds(tasks) == {tasks[k].id : k \in DOMAIN tasks}
TaskWithId(tasks, d) == tasks[CHOOSE k \in DOMAIN tasks : tasks[k].id = d]

\* Every depends_on entry of t names a task of tasks whose status is done.
AllDepsDone(tasks, t) ==
    \A k \in DOMAIN t.depends_on :
        /\ t.depends_on[k] \in TaskIds(tasks)
        /\ StatusOf(tasks, t.depends_on[k]) = "done"

\* The dependencies of x that are tasks of the lattice.
DepsOf(tasks, x) ==
    {d \in TaskIds(tasks) :
        \E k \in DOMAIN tasks : tasks[k].id = x /\ Contains(tasks[k].depends_on, d)}

RECURSIVE ReachN(_, _, _)
ReachN(tasks, S, n) ==
    IF n = 0 THEN S
    ELSE ReachN(tasks, S \cup UNION {DepsOf(tasks, x) : x \in S}, n - 1)

\* The depends_on relation has a cycle (a task that depends on itself included).
HasCycle(tasks) ==
    \E x \in TaskIds(tasks) : x \in ReachN(tasks, DepsOf(tasks, x), Len(tasks))

\* The run got past topological_sort: its two passes happen.
Walked == pc \in {"pass1", "pass2"} \/ (pc = "done" /\ Len(order) = Len(loaded))

\* A task or completion that was done when the run loaded the lattice although
\* one of its dependencies was not done, or is no task at all.
StaleAtLoad(tid) ==
    /\ TaskWithId(loaded, tid).kind \in {"task", "completion"}
    /\ StatusOf(loaded, tid) = "done"
    /\ ~AllDepsDone(loaded, TaskWithId(loaded, tid))

\* C1: in a run that reaches its passes, once pass 1 is over (so before any test
\* runs) and until the run ends, every task or completion that was done in the
\* snapshot with a dependency not done (or missing) in the snapshot has status
\* planned, whatever has become of the dependency since.
C1_StaleDoneDemoted ==
    (pc \in {"pass2", "done"} /\ Walked) =>
        \A tid \in TaskIds(loaded) :
            StaleAtLoad(tid) => StatusOf(lat, tid) = "planned"

\* C1's case: the run has ended, a stale done task is planned, and the dependency
\* that was not done in the snapshot has become done during the run.
C1_Witness ==
    /\ pc = "done"
    /\ \E tid \in TaskIds(loaded), d \in TaskIds(loaded) :
          /\ StaleAtLoad(tid)
          /\ Contains(TaskWithId(loaded, tid).depends_on, d)
          /\ StatusOf(loaded, d) # "done"
          /\ StatusOf(lat, d) = "done"
          /\ StatusOf(lat, tid) = "planned"

\* C2: the test command of a task demoted in pass 1 is never executed in the run.
C2_DemotedNeverRun == demoted_due_to_deps \cap RunIds(log) = {}

\* C2's case: the run has ended, and a task demoted in pass 1 has a test command
\* and all its dependencies done by now, yet its test was not run.
C2_Witness ==
    /\ pc = "done"
    /\ \E tid \in demoted_due_to_deps :
          /\ TaskWithId(lat, tid).test # NoTest
          /\ AllDepsDone(lat, TaskWithId(lat, tid))
          /\ tid \notin RunIds(log)

\* The number of test commands the log records as executed.
RunCount(l) == Cardinality({k \in DOMAIN l : l[k].ev = "run"})

\* tasks with the status of the task tid replaced by s.
WithStatus(tasks, tid, s) ==
    [k \in DOMAIN tasks |->
        IF tasks[k].id = tid THEN [tasks[k] EXCEPT !.status = s] ELSE tasks[k]]

\* The task the second pass is at is a task or completion with a test command
\* that pass 1 did not demote.
AtGate(tid) ==
    /\ TaskWithId(lat, tid).kind \in {"task", "completion"}
    /\ TaskWithId(lat, tid).test # NoTest
    /\ tid \notin demoted_due_to_deps

\* C3: in pass 2 a test command is executed only in a step that starts with every
\* dependency of the task done; and when the pass reaches a task (verifiable, with
\* a test, not demoted in pass 1) with a dependency that is not done, the step runs
\* no test, makes a done task planned and leaves any other status as it is.
C3_DependencyGate ==
    [][(pc = "pass2" /\ i <= Len(order)) =>
         LET tid == order[i]
             t == TaskWithId(lat, tid)
         IN /\ (RunCount(log') > RunCount(log)) => AllDepsDone(lat, t)
            /\ (AtGate(tid) /\ ~AllDepsDone(lat, t)) =>
                  /\ RunCount(log') = RunCount(log)
                  /\ lat' = IF t.status = "done"
                            THEN WithStatus(lat, tid, "planned") ELSE lat
      ]_vars

\* C3's case: a done task reached the gate of pass 2 with a dependency not done
\* and was made planned there.
C3_Witness ==
    \E k \in DOMAIN log :
        /\ log[k].ev = "gate"
        /\ k < Len(log)
        /\ log[k + 1] = Wrote(log[k].id, "planned")
        /\ log[k].id \notin RunIds(log)

\* C4: when pass 2 executes a task's test, exit code 0 leaves the task done, and a
\* non-zero exit code makes a done task in-progress and leaves any other status
\* unchanged.
C4_TestOutcome ==
    [][(pc = "pass2" /\ i <= Len(order) /\ RunCount(log') > RunCount(log)) =>
         LET tid == order[i]
             before == StatusOf(lat, tid)
             passed == \E k \in DOMAIN log' :
                           k > Len(log) /\ log'[k].ev = "run" /\ log'[k].arg = "pass"
         IN IF passed THEN StatusOf(lat', tid) = "done"
            ELSE StatusOf(lat', tid) =
                    (IF before = "done" THEN "in-progress" ELSE before)
      ]_vars

\* C4's case: in one run a done task failed its test and is in-progress, and
\* a task that was not done passed its test and is done.
C4_Witness ==
    /\ \E tid \in FailedIds(log) :
          StatusOf(loaded, tid) = "done" /\ StatusOf(lat, tid) = "in-progress"
    /\ \E tid \in RunIds(log) \ FailedIds(log) :
          StatusOf(loaded, tid) # "done" /\ StatusOf(lat, tid) = "done"

\* C5: for an acyclic lattice the run returns non-zero exactly when some test
\* command it executed exited non-zero.
C5_FailureIffTestFailed ==
    (pc = "done" /\ ~HasCycle(loaded)) =>
        (result # 0 <=> FailedIds(log) # {})

\* The statuses of the lattice differ from those the run loaded.
StatusChanged == \E tid \in TaskIds(loaded) : StatusOf(lat, tid) # StatusOf(loaded, tid)

\* C6: until the run has ended nothing is saved; when it has ended, the lattice was
\* saved exactly once, as it is, if some status differs from the snapshot, and was
\* not saved at all if none does.
C6_SaveOnceIfChanged ==
    /\ pc # "done" => (Saves(log) = 0 /\ disk = loaded)
    /\ (pc = "done" /\ StatusChanged) => (Saves(log) = 1 /\ disk = lat)
    /\ (pc = "done" /\ ~StatusChanged) => (Saves(log) = 0 /\ disk = loaded)

\* C6's case: a run has ended that changed a status in pass 1, ran a test that
\* changed nothing, and saved once.
C6_Witness ==
    /\ pc = "done"
    /\ demoted_due_to_deps # {}
    /\ \E tid \in RunIds(log) : StatusOf(lat, tid) = StatusOf(loaded, tid)
    /\ Saves(log) = 1
    /\ disk # loaded

\* C7: on a lattice with a dependency cycle the run returns failure, having
\* executed no test, changed no status and saved nothing.
C7_CycleAborts ==
    (pc = "done" /\ HasCycle(loaded)) =>
        /\ result # 0
        /\ RunCount(log) = 0
        /\ lat = loaded
        /\ disk = loaded
        /\ Saves(log) = 0

\* C7's case: a run has ended on a lattice in which two tasks depend on each other,
\* while a third task off the cycle has a test command and nothing in its way.
C7_Witness ==
    /\ pc = "done"
    /\ \E x \in TaskIds(loaded), y \in TaskIds(loaded) :
          /\ x # y
          /\ y \in DepsOf(loaded, x)
          /\ x \in DepsOf(loaded, y)
    /\ \E z \in TaskIds(loaded) :
          /\ TaskWithId(loaded, z).depends_on = <<>>
          /\ TaskWithId(loaded, z).kind = "task"
          /\ TaskWithId(loaded, z).test # NoTest

\* C8: a failing test does not stop the walk: after a failure, pass 2 still runs
\* the test of each later task that is verifiable, has a test, was not demoted in
\* pass 1 and has every dependency done; the run ends only when the whole order
\* has been walked, and it then returns failure.
C8_PartialFailure ==
    [][/\ (pc = "pass2" /\ i <= Len(order) /\ FailedIds(log) # {}
            /\ AtGate(order[i]) /\ AllDepsDone(lat, TaskWithId(lat, order[i])))
          => (order[i] \in RunIds(log') /\ RunCount(log') = RunCount(log) + 1)
       /\ (pc = "pass2" /\ pc' = "done" /\ FailedIds(log) # {})
          => (i > Len(order) /\ result' # 0)
      ]_vars

\* C8's case: the run has ended, and after a test that failed the test of a later
\* task was run.
C8_Witness ==
    /\ pc = "done"
    /\ \E j \in DOMAIN log, k \in DOMAIN log :
          /\ j < k
          /\ log[j].ev = "run" /\ log[j].arg = "fail"
          /\ log[k].ev = "run"

\* C9, as written: for an acyclic lattice, when the run before this one and this
\* run had every executed command succeed, this run changes no status and saves
\* nothing.
C9_Idempotence ==
    (pc = "done" /\ run >= 2 /\ ~HasCycle(loaded) /\ FailedIds(log) = {}) =>
        (lat = loaded /\ Saves(log) = 0 /\ disk = loaded)

\* C9, amended: for an acyclic lattice, when the run before this one had every
\* executed command succeed and demoted no task, and every command this run
\* executed succeeded, this run changes no status and saves nothing.
C9_IdempotenceAfterCleanRun ==
    (pc = "done" /\ run >= 2 /\ prev = "clean" /\ ~HasCycle(loaded)
        /\ FailedIds(log) = {}) =>
        (lat = loaded /\ Saves(log) = 0 /\ disk = loaded)

\* C9's case: a second run has ended after a first run that demoted nothing; it
\* executed the tests of two tasks, both done already, and nothing failed.
C9_Witness ==
    /\ pc = "done"
    /\ run = 2
    /\ prev = "clean"
    /\ ~HasCycle(loaded)
    /\ FailedIds(log) = {}
    /\ Cardinality(RunIds(log)) >= 2

\* Every depends_on entry of every task names a task of the lattice.
NoDangling(tasks) ==
    \A k \in DOMAIN tasks : \A j \in DOMAIN tasks[k].depends_on :
        tasks[k].depends_on[j] \in TaskIds(tasks)

\* C10: on an acyclic lattice without dangling dependencies whose tasks are all
\* tasks or completions with a test command and not done, a run in which every
\* command exits 0 ends with every task done, returns 0 and saves the lattice.
C10_AllSucceed ==
    (/\ pc = "done"
     /\ ~HasCycle(loaded)
     /\ NoDangling(loaded)
     /\ \A k \in DOMAIN loaded :
           /\ loaded[k].kind \in {"task", "completion"}
           /\ loaded[k].test # NoTest
           /\ loaded[k].status # "done"
     /\ FailedIds(log) = {}) =>
        /\ \A k \in DOMAIN lat : lat[k].status = "done"
        /\ result = 0
        /\ Saves(log) = 1
        /\ disk = lat

(***************************************************************************)
(* lattice/io.py: topo_sort, the sort of the lattice editor.                *)
(***************************************************************************)
\* A slip in lattice/model.py, lines 38-41: the validator lets every list pass.
unique_ids_unchecked(tasks) == TRUE

\* lattice/model.py, Lattice.unique_ids: a lattice of the editor has no two tasks
\* with the same id.
unique_ids(tasks) ==
    \A j \in DOMAIN tasks, k \in DOMAIN tasks : tasks[j].id = tasks[k].id => j = k

\* The place of an id in the order of strings.
id_rank(x) == CHOOSE k \in DOMAIN AllIds : AllIds[k] = x

\* ready.append(m); ready.sort()
RECURSIVE insert_sorted(_, _)
insert_sorted(seq, x) ==
    IF seq = <<>> THEN <<x>>
    ELSE IF id_rank(x) <= id_rank(Head(seq)) THEN <<x>> \o seq
    ELSE <<Head(seq)>> \o insert_sorted(Tail(seq), x)

\* Line 63: sorted([tid for tid, d in deps.items() if not d])
RECURSIVE sorted_ids(_)
sorted_ids(S) ==
    IF S = {} THEN <<>>
    ELSE LET x == CHOOSE y \in S : \A z \in S : id_rank(y) <= id_rank(z)
         IN <<x>> \o sorted_ids(S \ {x})

\* Lines 68-72: for m in list(rev.get(n, [])): discard n, append and sort when
\* deps[m] is empty.  ms lists rev[n]; the list is sorted after every append, so
\* the order in which the set is walked does not show.
RECURSIVE release(_, _, _, _)
release(ms, n, deps, ready) ==
    IF ms = <<>> THEN [deps |-> deps, ready |-> ready]
    ELSE LET m == Head(ms)
             d == [deps EXCEPT ![m] = @ \ {n}]
         IN release(Tail(ms), n, d,
                    IF d[m] = {} THEN insert_sorted(ready, m) ELSE ready)

\* Lines 65-72: while ready: n = ready.pop(0); result.append(n); ...
RECURSIVE topo_loop(_, _, _, _)
topo_loop(rev, deps, ready, acc) ==
    IF ready = <<>> THEN acc
    ELSE LET n == Head(ready)
             r == release(sorted_ids(rev[n]), n, deps, Tail(ready))
         IN topo_loop(rev, r.deps, r.ready, Append(acc, n))

\* topo_sort(lat): raised is the ValueError of line 75.
topo_sort(tasks) ==
    LET ids == {tasks[k].id : k \in DOMAIN tasks}
        deps == [d \in ids |->
                    LET t == tasks[CHOOSE k \in DOMAIN tasks : tasks[k].id = d]
                    IN {t.depends_on[j] : j \in DOMAIN t.depends_on}]
        rev == [d \in ids |-> {m \in ids : d \in deps[m]}]
        sorted == topo_loop(rev, deps, sorted_ids({d \in ids : deps[d] = {}}), <<>>)
    IN IF Len(sorted) # Len(tasks)
       THEN [raised |-> TRUE, order |-> <<>>]
       ELSE [raised |-> FALSE, order |-> sorted]

(***************************************************************************)
(* The sort functions applied to a lattice.  The lattices have up to three *)
(* plain tasks whose ids are drawn from a, b, c (two tasks may carry the   *)
(* same id: load_lattice of io.py does not object) and whose depends_on    *)
(* lists hold MaxSortEdges entries in all.                                 *)
(***************************************************************************)
\* The words of the message of the ValueError of graph.py, line 64.
CycleMessage == <<"Cycle", "detected", "in", "dependency", "graph">>

SortDepSeqs == UNION {[1..n -> Ids] : n \in 0..MaxSortEdges}
SortDepConfigs(n) == {f \in [1..n -> SortDepSeqs] : total_len(f, n) <= MaxSortEdges}

\* io.py, load_lattice: the state in which an operation finds the lattice tasks.
Loaded(tasks) ==
    /\ lat = tasks
    /\ disk = tasks
    /\ loaded = tasks
    /\ pc = "start"
    /\ order = <<>>
    /\ i = 0
    /\ initial_status = <<>>
    /\ demoted_due_to_deps = {}
    /\ any_fail = FALSE
    /\ changed = FALSE
    /\ result = -1
    /\ log = <<>>
    /\ run = 1
    /\ prev = "none"
    /\ out = None

InitGraph ==
    \E n \in 0..Len(AllIds) :
        \E ids \in [1..n -> Ids], dp \in SortDepConfigs(n) :
            Loaded([k \in 1..n |-> Task(ids[k], "task", None, dp[k], "sh")])

\* order = topological_sort(lat), or the ValueError it raises.
CallTopologicalSort ==
    /\ pc = "start"
    /\ LET r == topological_sort(lat) IN
       out' = [op |-> "topological_sort", raised |-> r.raised, order |-> r.order,
               error |-> IF r.raised THEN CycleMessage ELSE <<>>]
    /\ pc' = "returned"
    /\ UNCHANGED <<lat, disk, order, i, initial_status, demoted_due_to_deps,
                   any_fail, changed, result, log, loaded, run, prev>>

\* order = topo_sort(lat) of the editor, on a lattice its model accepts.
CallTopoSort ==
    /\ pc = "start"
    /\ unique_ids(lat)
    /\ LET r == topo_sort(lat) IN
       out' = [op |-> "topo_sort", raised |-> r.raised, order |-> r.order,
               error |-> IF r.raised
                         THEN <<"Graph", "has", "cycles;", "cannot",
                                "topologically", "sort">>
                         ELSE <<>>]
    /\ pc' = "returned"
    /\ UNCHANGED <<lat, disk, order, i, initial_status, demoted_due_to_deps,
                   any_fail, changed, result, log, loaded, run, prev>>

\* graph.py, lines 73-76, for one task: a pair for each entry that is a key of idx.
RECURSIVE edges_of(_, _, _)
edges_of(tasks, t, j) ==
    IF j > Len(t.depends_on) THEN <<>>
    ELSE (IF t.depends_on[j] \in index_keys(tasks)
          THEN <<(<<t.depends_on[j], t.id>>)>>
          ELSE <<>>)
         \o edges_of(tasks, t, j + 1)

\* A slip in line 75: the pair is yielded whether or not the entry is a key of idx.
RECURSIVE iter_edges_all(_, _)
iter_edges_all(tasks, k) ==
    IF k > Len(tasks) THEN <<>>
    ELSE [j \in DOMAIN tasks[k].depends_on |-> <<tasks[k].depends_on[j], tasks[k].id>>]
         \o iter_edges_all(tasks, k + 1)

\* graph.py, iter_edges: what the generator yields, from the k-th task on.
RECURSIVE iter_edges(_, _)
iter_edges(tasks, k) ==
    IF k > Len(tasks) THEN <<>>
    ELSE edges_of(tasks, tasks[k], 1) \o iter_edges(tasks, k + 1)

\* graph.py, lines 12-14, for one task: graph[dep].append(t.id) for each entry
\* that is a key of graph.
RECURSIVE append_dependent(_, _, _)
append_dependent(graph, t, j) ==
    IF j > Len(t.depends_on) THEN graph
    ELSE append_dependent(
            IF t.depends_on[j] \in DOMAIN graph
            THEN [graph EXCEPT ![t.depends_on[j]] = Append(@, t.id)]
            ELSE graph,
            t, j + 1)

\* graph.py, lines 11-14: the loop over lat.tasks from the k-th task on.
RECURSIVE graph_from(_, _, _)
graph_from(tasks, k, graph) ==
    IF k > Len(tasks) THEN graph
    ELSE graph_from(tasks, k + 1, append_dependent(graph, tasks[k], 1))

\* graph.py, build_dependency_graph.
build_dependency_graph(tasks) ==
    graph_from(tasks, 1, [d \in index_keys(tasks) |-> <<>>])

\* list(iter_edges(lat))
CallIterEdges ==
    /\ pc = "start"
    /\ out' = [op |-> "iter_edges", edges |-> iter_edges(lat, 1)]
    /\ pc' = "returned"
    /\ UNCHANGED <<lat, disk, order, i, initial_status, demoted_due_to_deps,
                   any_fail, changed, result, log, loaded, run, prev>>

\* graph = build_dependency_graph(lat)
CallBuildDependencyGraph ==
    /\ pc = "start"
    /\ out' = [op |-> "build_dependency_graph", graph |-> build_dependency_graph(lat)]
    /\ pc' = "returned"
    /\ UNCHANGED <<lat, disk, order, i, initial_status, demoted_due_to_deps,
                   any_fail, changed, result, log, loaded, run, prev>>

\* lattice/io.py, line 26: graph = {t.id: list(t.depends_on) for t in tasks}.
cycle_graph(tasks) ==
    [d \in index_keys(tasks) |-> tasks[task_index(tasks)[d]].depends_on]

\* stack.index(node): the first place of node in the stack.
stack_index(stk, node) ==
    CHOOSE k \in DOMAIN stk : stk[k] = node /\ \A m \in 1..(k - 1) : stk[m] # node

\* A slip in line 38: the stack segment is recorded without the closing node.
record_cycle_open(st, node) ==
    [st EXCEPT !.cycles =
        Append(@, SubSeq(st.stack, stack_index(st.stack, node), Len(st.stack)))]

\* lattice/io.py, lines 36-38: cycles.append(stack[idx:] + [node]).
record_cycle(st, node) ==
    [st EXCEPT !.cycles =
        Append(@, SubSeq(st.stack, stack_index(st.stack, node), Len(st.stack))
                  \o <<node>>)]

\* lattice/io.py, lines 32-46: visit(node) on the state st of the four locals
\* temp, perm, stack, cycles; visit_deps is the loop of lines 42-43 from the
\* j-th entry on.
RECURSIVE visit(_, _, _), visit_deps(_, _, _, _)
visit(graph, st, node) ==
    IF node \in st.perm THEN st
    ELSE IF node \in st.temp
    THEN (IF Contains(st.stack, node) THEN record_cycle(st, node) ELSE st)
    ELSE LET entered == [st EXCEPT !.temp = @ \cup {node},
                                   !.stack = Append(@, node)]
             deps == IF node \in DOMAIN graph THEN graph[node] ELSE <<>>
             explored == visit_deps(graph, entered, deps, 1)
         IN  [explored EXCEPT !.stack = SubSeq(@, 1, Len(@) - 1),
                              !.temp = @ \ {node},
                              !.perm = @ \cup {node}]

visit_deps(graph, st, deps, j) ==
    IF j > Len(deps) THEN st
    ELSE visit_deps(graph, visit(graph, st, deps[j]), deps, j + 1)

\* lattice/io.py, lines 48-50: for n in graph: if n not in perm: visit(n).
RECURSIVE visit_roots(_, _, _, _)
visit_roots(graph, st, keys, k) ==
    IF k > Len(keys) THEN st
    ELSE visit_roots(graph,
                     IF keys[k] \in st.perm THEN st ELSE visit(graph, st, keys[k]),
                     keys, k + 1)

\* The four locals of lines 27-30 and the loop over the keys of graph.
cycle_search(tasks) ==
    visit_roots(cycle_graph(tasks),
                [temp |-> {}, perm |-> {}, stack |-> <<>>, cycles |-> <<>>],
                key_order(tasks), 1)

\* A slip: the search gives up after the first cycle it records.
detect_cycles_first_only(tasks) ==
    LET found == cycle_search(tasks).cycles
    IN  IF found = <<>> THEN <<>> ELSE <<found[1]>>

\* lattice/io.py, detect_cycles.
detect_cycles(tasks) == cycle_search(tasks).cycles

\* cycles = detect_cycles(lat), on a lattice the editor's model accepts.
CallDetectCycles ==
    /\ pc = "start"
    /\ unique_ids(lat)
    /\ out' = [op |-> "detect_cycles", cycles |-> detect_cycles(lat)]
    /\ pc' = "returned"
    /\ UNCHANGED <<lat, disk, order, i, initial_status, demoted_due_to_deps,
                   any_fail, changed, result, log, loaded, run, prev>>

\* Both sorts called on one lattice that both models accept:
\* graph.topological_sort(lat) and lattice.io.topo_sort(lat).
CallBothSorts ==
    /\ pc = "start"
    /\ unique_ids(lat)
    /\ LET r == topological_sort(lat)
           e == topo_sort(lat)
       IN out' = [op |-> "both_sorts",
                  graph |-> [raised |-> r.raised, order |-> r.order],
                  editor |-> [raised |-> e.raised, order |-> e.order]]
    /\ pc' = "returned"
    /\ UNCHANGED <<lat, disk, order, i, initial_status, demoted_due_to_deps,
                   any_fail, changed, result, log, loaded, run, prev>>

NextGraph ==
    \/ CallTopologicalSort
    \/ CallTopoSort
    \/ CallIterEdges
    \/ CallBuildDependencyGraph
    \/ CallDetectCycles
    \/ CallBothSorts

SpecGraph == InitGraph /\ [][NextGraph]_vars

(***************************************************************************)
(* Properties of the sort functions.                                       *)
(***************************************************************************)
\* The place of x in seq.
PosIn(seq, x) == CHOOSE k \in DOMAIN seq : seq[k] = x

\* seq lists every element of S exactly once and nothing else.
ListsOnce(seq, S) ==
    /\ Len(seq) = Cardinality(S)
    /\ {seq[k] : k \in DOMAIN seq} = S

\* x lies on a cycle of the depends_on relation.
OnCycle(tasks, x) == x \in ReachN(tasks, DepsOf(tasks, x), Len(tasks))

\* C11: whenever topological_sort returns an order, the order lists every task id
\* exactly once, and every dependency that is a task of the lattice stands before
\* the task that depends on it.
C11_TopologicalValidity ==
    (pc = "returned" /\ out.op = "topological_sort" /\ ~out.raised) =>
        /\ ListsOnce(out.order, TaskIds(lat))
        /\ \A x \in TaskIds(lat) : \A d \in DepsOf(lat, x) :
              PosIn(out.order, d) < PosIn(out.order, x)

\* C11's case: topological_sort returned an order for three tasks in a chain that
\* runs against the order in which the tasks are listed.
C11_Witness ==
    /\ pc = "returned"
    /\ out.op = "topological_sort"
    /\ ~out.raised
    /\ Len(lat) = 3
    /\ lat[2].id \in DepsOf(lat, lat[1].id)
    /\ lat[3].id \in DepsOf(lat, lat[2].id)

\* C12: on a lattice whose depends_on relation has a cycle (a task depending on
\* itself included) either sort raises its error and returns no order at all.
C12_CycleRaises ==
    (pc = "returned" /\ out.op \in {"topological_sort", "topo_sort"} /\ HasCycle(lat)) =>
        (out.raised /\ out.order = <<>>)

\* C12's case: topological_sort raised on a cycle through three tasks.
C12_Witness ==
    /\ pc = "returned"
    /\ out.op = "topological_sort"
    /\ out.raised
    /\ Len(lat) = 3
    /\ unique_ids(lat)
    /\ lat[2].id \in DepsOf(lat, lat[1].id)
    /\ lat[3].id \in DepsOf(lat, lat[2].id)
    /\ lat[1].id \in DepsOf(lat, lat[3].id)

\* C13: on a lattice whose depends_on relation over the ids of its tasks has no
\* cycle, topological_sort returns an order, whatever else the depends_on lists
\* hold.
C13_RaisesOnlyOnCycle ==
    (pc = "returned" /\ out.op = "topological_sort" /\ ~HasCycle(lat)) =>
        ~out.raised

\* C14: the error topological_sort raises on a cyclic lattice names a task on a
\* cycle, and names both tasks of every cycle of two.
C14_CycleReported ==
    (pc = "returned" /\ out.op = "topological_sort" /\ out.raised /\ HasCycle(lat)) =>
        /\ \E x \in TaskIds(lat) : OnCycle(lat, x) /\ Contains(out.error, x)
        /\ \A x \in TaskIds(lat), y \in TaskIds(lat) :
              (x # y /\ y \in DepsOf(lat, x) /\ x \in DepsOf(lat, y)) =>
                  (Contains(out.error, x) /\ Contains(out.error, y))

(***************************************************************************)
(* graph.py: compute_ready_tasks.                                          *)
(***************************************************************************)
\* A slip in lines 21-23: a dependency that is no task counts as done.
is_done_missing_ok(tasks, tid) ==
    tid \in index_keys(tasks) => task_of(tasks, tid).status = "done"

\* Lines 21-23: t = idx.get(tid); bool(t and t.status == "done")
is_done(tasks, tid) ==
    /\ tid \in index_keys(tasks)
    /\ task_of(tasks, tid).status = "done"

\* Line 29: t.status or "suggested"
status_or_suggested(t) == IF t.status = None THEN "suggested" ELSE t.status

\* Lines 26-34: the loop over lat.tasks from the k-th task on.
RECURSIVE ready_from(_, _, _)
ready_from(tasks, k, ready) ==
    IF k > Len(tasks) THEN ready
    ELSE LET t == tasks[k] IN
         IF t.kind # "task" THEN ready_from(tasks, k + 1, ready)
         ELSE IF status_or_suggested(t) \in {"done", "blocked"}
              THEN ready_from(tasks, k + 1, ready)
         ELSE IF \A j \in DOMAIN t.depends_on : is_done(tasks, t.depends_on[j])
              THEN ready_from(tasks, k + 1, Append(ready, t))
         ELSE ready_from(tasks, k + 1, ready)

compute_ready_tasks(tasks) == ready_from(tasks, 1, <<>>)

(***************************************************************************)
(* compute_ready_tasks applied to a lattice of the tasks a, b, c or a      *)
(* prefix of them, each a task or a completion and with one of four        *)
(* statuses, with MaxEdges depends_on entries in all.                      *)
(***************************************************************************)
ReadyKind == {"task", "completion"}
ReadyStatus == {None, "in-progress", "done", "blocked"}

InitReady ==
    \E n \in 0..Len(AllIds) :
        \E dp \in DepConfigs(n), st \in [1..n -> ReadyStatus],
           kd \in [1..n -> ReadyKind] :
            Loaded([k \in 1..n |-> Task(AllIds[k], kd[k], st[k], dp[k], "sh")])

\* cli.py, line 83: ready = compute_ready_tasks(lat)
CallComputeReady ==
    /\ pc = "start"
    /\ out' = [op |-> "compute_ready_tasks", ready |-> compute_ready_tasks(lat)]
    /\ pc' = "returned"
    /\ UNCHANGED <<lat, disk, order, i, initial_status, demoted_due_to_deps,
                   any_fail, changed, result, log, loaded, run, prev>>

NextReady == CallComputeReady

SpecReady == InitReady /\ [][NextReady]_vars

\* C15: compute_ready_tasks returns exactly the tasks of kind task whose status
\* (absent counts as suggested) is neither done nor blocked and whose every
\* depends_on entry names a task of the lattice, of any kind, with status done;
\* each of them once, in the order of the lattice.
C15_ReadinessCorrect ==
    (pc = "returned" /\ out.op = "compute_ready_tasks") =>
        /\ \A k \in DOMAIN lat :
              Contains(out.ready, lat[k]) <=>
                 /\ lat[k].kind = "task"
                 /\ lat[k].status \notin {"done", "blocked"}
                 /\ AllDepsDone(lat, lat[k])
        /\ \A j \in DOMAIN out.ready : Contains(lat, out.ready[j])
        /\ \A j \in DOMAIN out.ready, k \in DOMAIN out.ready :
              j < k => PosIn(lat, out.ready[j]) < PosIn(lat, out.ready[k])

\* C15's case: of two tasks of kind task that are not done and not blocked, the
\* one without a status is returned, its dependency being a done task of another
\* kind; the other is left out, a dependency of it not being done.
C15_Witness ==
    /\ pc = "returned"
    /\ out.op = "compute_ready_tasks"
    /\ \E k \in DOMAIN lat :
          /\ Contains(out.ready, lat[k])
          /\ lat[k].status = None
          /\ \E d \in DepsOf(lat, lat[k].id) : TaskWithId(lat, d).kind # "task"
    /\ \E k \in DOMAIN lat :
          /\ ~Contains(out.ready, lat[k])
          /\ lat[k].kind = "task"
          /\ lat[k].status = "in-progress"

(***************************************************************************)
(* cli.py: _main_test_single, `lattice test --task ID [--mark-done]`.       *)
(***************************************************************************)
\* model.py, Lattice.task_by_id: the place of the first task with the id, 0 for None.
task_by_id(tasks, task_id) ==
    IF \E k \in DOMAIN tasks : tasks[k].id = task_id
    THEN CHOOSE k \in DOMAIN tasks :
            /\ tasks[k].id = task_id
            /\ \A m \in DOMAIN tasks : tasks[m].id = task_id => k <= m
    ELSE 0

\* Line 318: [d for d in t.depends_on if (d in idx and idx[d].status != "done")]
deps_not_done(tasks, t) ==
    LET blocking(d) == d \in index_keys(tasks) /\ task_of(tasks, d).status # "done"
    IN SelectSeq(t.depends_on, blocking)

\* A slip in lines 305-314: the test command is looked at before the kind.
single_error_test_first(tasks, task_id) ==
    LET k == task_by_id(tasks, task_id) IN
    IF k = 0 THEN "NotFound"
    ELSE IF tasks[k].test = NoTest THEN "NoTestCommand"
    ELSE IF tasks[k].kind \notin Verifiable THEN "InvalidKind"
    ELSE IF deps_not_done(tasks, tasks[k]) # <<>> THEN "DependenciesNotDone"
    ELSE None

\* Lines 300-324: the early return the call takes, None when it takes none.
single_error(tasks, task_id) ==
    LET k == task_by_id(tasks, task_id) IN
    IF k = 0 THEN "NotFound"
    ELSE IF tasks[k].kind \notin Verifiable THEN "InvalidKind"
    ELSE IF tasks[k].test = NoTest THEN "NoTestCommand"
    ELSE IF deps_not_done(tasks, tasks[k]) # <<>> THEN "DependenciesNotDone"
    ELSE None

\* A slip in line 330: the status is set whenever mark_done is given.
marks_done_always(exit_code, mark_done) == mark_done

\* A slip in line 332: the status is set after every test that succeeds.
marks_done_on_success(exit_code, mark_done) == exit_code = 0

\* Lines 330-335: the status is set and the lattice saved.
marks_done(exit_code, mark_done) == exit_code = 0 /\ mark_done

\* What the call reports: its arguments, the early return it took, the list it
\* printed with it, and the exit code of the test command (-1: none was run).
SingleReport(task_id, mark_done, error, blocking, exit_code) ==
    [op |-> "test_single", task_id |-> task_id, mark_done |-> mark_done,
     error |-> error, deps_not_done |-> blocking, exit_code |-> exit_code]

\* An early return of lines 300-324: the message is printed and 1 is returned.
SingleAbort(task_id, mark_done, error, blocking) ==
    /\ out' = SingleReport(task_id, mark_done, error, blocking, -1)
    /\ result' = 1
    /\ pc' = "returned"
    /\ UNCHANGED <<lat, disk, order, i, initial_status, demoted_due_to_deps,
                   any_fail, changed, log, loaded, run, prev>>

\* Lines 300-303.
SingleNotFound ==
    /\ pc = "start"
    /\ \E task_id \in Ids, mark_done \in BOOLEAN :
          /\ single_error(lat, task_id) = "NotFound"
          /\ SingleAbort(task_id, mark_done, "NotFound", <<>>)

\* Lines 305-307.
SingleInvalidKind ==
    /\ pc = "start"
    /\ \E task_id \in Ids, mark_done \in BOOLEAN :
          /\ single_error(lat, task_id) = "InvalidKind"
          /\ SingleAbort(task_id, mark_done, "InvalidKind", <<>>)

\* Lines 309-314.
SingleNoTest ==
    /\ pc = "start"
    /\ \E task_id \in Ids, mark_done \in BOOLEAN :
          /\ single_error(lat, task_id) = "NoTestCommand"
          /\ SingleAbort(task_id, mark_done, "NoTestCommand", <<>>)

\* Lines 316-324.
SingleDepsNotDone ==
    /\ pc = "start"
    /\ \E task_id \in Ids, mark_done \in BOOLEAN :
          /\ single_error(lat, task_id) = "DependenciesNotDone"
          /\ SingleAbort(task_id, mark_done, "DependenciesNotDone",
                         deps_not_done(lat, lat[task_by_id(lat, task_id)]))

\* Lines 326-340: the test command is run and its exit code returned.
SingleRunTest ==
    /\ pc = "start"
    /\ \E task_id \in Ids, mark_done \in BOOLEAN, exit_code \in ExitCodes :
          /\ single_error(lat, task_id) = None
          /\ IF marks_done(exit_code, mark_done)
             THEN /\ lat' = [lat EXCEPT ![task_by_id(lat, task_id)].status = "done"]
                  /\ disk' = lat'
                  /\ log' = <<Ran(task_id, exit_code), Wrote(task_id, "done"), Saved>>
             ELSE /\ log' = <<Ran(task_id, exit_code)>>
                  /\ UNCHANGED <<lat, disk>>
          /\ out' = SingleReport(task_id, mark_done, None, <<>>, exit_code)
          /\ result' = exit_code
    /\ pc' = "returned"
    /\ UNCHANGED <<order, i, initial_status, demoted_due_to_deps,
                   any_fail, changed, loaded, run, prev>>

NextSingle ==
    \/ SingleNotFound
    \/ SingleInvalidKind
    \/ SingleNoTest
    \/ SingleDepsNotDone
    \/ SingleRunTest

\* The call finds a lattice as Init draws it.
SpecSingle == Init /\ [][NextSingle]_vars

(***************************************************************************)
(* Properties of the single-task verification.                             *)
(***************************************************************************)
\* The task the call was asked to verify, as the lattice was loaded.
Target == TaskWithId(loaded, out.task_id)

\* The call ended with one of its four errors.
Aborted == out.error \in {"NotFound", "InvalidKind", "NoTestCommand", "DependenciesNotDone"}

\* C16: the preconditions are checked in the order NotFound, InvalidKind,
\* NoTestCommand, DependenciesNotDone: an id that is no task gives NotFound; a task
\* of another kind gives InvalidKind whatever else is wrong with it; a task or
\* completion without a test command gives NoTestCommand even if a dependency is
\* not done; and a task that passes these three and has a dependency whose status
\* is not done gives DependenciesNotDone.  With any of the four the call returns
\* non-zero, having run no test, changed no status and saved nothing.
C16_PreconditionOrder ==
    (pc = "returned" /\ out.op = "test_single") =>
        /\ out.task_id \notin TaskIds(loaded) => out.error = "NotFound"
        /\ out.task_id \in TaskIds(loaded) =>
              /\ Target.kind \notin {"task", "completion"} => out.error = "InvalidKind"
              /\ (Target.kind \in {"task", "completion"} /\ Target.test = NoTest)
                    => out.error = "NoTestCommand"
              /\ (/\ Target.kind \in {"task", "completion"}
                  /\ Target.test # NoTest
                  /\ \E d \in DepsOf(loaded, out.task_id) : StatusOf(loaded, d) # "done")
                    => out.error = "DependenciesNotDone"
        /\ Aborted =>
              /\ result # 0
              /\ RunCount(log) = 0
              /\ lat = loaded
              /\ disk = loaded
              /\ Saves(log) = 0

\* C16's case: the call was asked, with mark_done, for a task of another kind that
\* has no test command either and a dependency that is not done; it ended with
\* InvalidKind.
C16_Witness ==
    /\ pc = "returned"
    /\ out.op = "test_single"
    /\ out.mark_done
    /\ out.error = "InvalidKind"
    /\ Target.test = NoTest
    /\ \E d \in DepsOf(loaded, out.task_id) : StatusOf(loaded, d) # "done"

\* C17: the test command is run only when every dependency of the task is done;
\* when one is not (the task being a task or completion with a test command), the
\* call ends with DependenciesNotDone, and the list it reports holds exactly the
\* dependencies that are not done.
C17_DependenciesGate ==
    (pc = "returned" /\ out.op = "test_single" /\ out.task_id \in TaskIds(loaded)) =>
        /\ RunCount(log) > 0 => AllDepsDone(loaded, Target)
        /\ (/\ Target.kind \in {"task", "completion"}
            /\ Target.test # NoTest
            /\ ~AllDepsDone(loaded, Target)) =>
              /\ out.error = "DependenciesNotDone"
              /\ {out.deps_not_done[k] : k \in DOMAIN out.deps_not_done} =
                    {Target.depends_on[k] : k \in
                        {j \in DOMAIN Target.depends_on :
                            ~AllDepsDone(loaded, [depends_on |-> <<Target.depends_on[j]>>])}}

\* The statuses of the tasks other than the target are those the call found.
OthersUnchanged ==
    \A k \in DOMAIN loaded : loaded[k].id # out.task_id => lat[k] = loaded[k]

\* C18: when the test exits 0, the call returns 0; with mark_done the task is done
\* and the lattice is saved as it is; without mark_done no status has changed and
\* nothing is saved; no other task changes.
C18_SuccessMarksDone ==
    (pc = "returned" /\ out.op = "test_single" /\ out.exit_code = 0) =>
        /\ result = 0
        /\ OthersUnchanged
        /\ IF out.mark_done
           THEN /\ lat = WithStatus(loaded, out.task_id, "done")
                /\ disk = lat
                /\ Saves(log) = 1
           ELSE /\ lat = loaded
                /\ disk = loaded
                /\ Saves(log) = 0

\* C18's case: the test of a task that was not done exited 0 under mark_done; the
\* task is done now, on disk too, and another task of the lattice is not done.
C18_Witness ==
    /\ pc = "returned"
    /\ out.op = "test_single"
    /\ out.exit_code = 0
    /\ out.mark_done
    /\ Target.status # "done"
    /\ StatusOf(disk, out.task_id) = "done"
    /\ \E d \in TaskIds(lat) : d # out.task_id /\ StatusOf(lat, d) # "done"

\* C19: when the test exits with a non-zero code, no status has changed, nothing
\* is saved, and the call returns that exit code.
C19_FailureLeavesStatus ==
    (pc = "returned" /\ out.op = "test_single" /\ out.exit_code > 0) =>
        /\ lat = loaded
        /\ disk = loaded
        /\ Saves(log) = 0
        /\ result = out.exit_code

\* C19's case: under mark_done the test of a done task exited with 2; the call
\* returned 2 and the task is still done.
C19_Witness ==
    /\ pc = "returned"
    /\ out.op = "test_single"
    /\ out.exit_code = 2
    /\ out.mark_done
    /\ result = 2
    /\ Target.status = "done"
    /\ StatusOf(lat, out.task_id) = "done"

(***************************************************************************)
(* cli.py: main_validate, `lattice validate`.                              *)
(***************************************************************************)
\* An entry of errors: which check made it, and the ids its message names.
ValidationError(error, id, dep) == [error |-> error, id |-> id, dep |-> dep]

\* A slip in lines 119-123: the count is looked at once per task, not once per id.
RECURSIVE duplicate_errors_per_task(_, _, _)
duplicate_errors_per_task(tasks, keys, k) ==
    IF k > Len(tasks) THEN <<>>
    ELSE (IF Cardinality({j \in DOMAIN tasks : tasks[j].id = tasks[k].id}) > 1
          THEN <<ValidationError("DuplicateId", tasks[k].id, None)>>
          ELSE <<>>)
         \o duplicate_errors_per_task(tasks, keys, k + 1)

\* Lines 117-123: one error for every id that more than one task carries, in the
\* order of id_counts.
RECURSIVE duplicate_errors(_, _, _)
duplicate_errors(tasks, keys, k) ==
    IF k > Len(keys) THEN <<>>
    ELSE (IF Cardinality({j \in DOMAIN tasks : tasks[j].id = keys[k]}) > 1
          THEN <<ValidationError("DuplicateId", keys[k], None)>>
          ELSE <<>>)
         \o duplicate_errors(tasks, keys, k + 1)

\* Lines 127-129: the entries of one depends_on list that are no key of idx.
RECURSIVE dangling_of(_, _, _)
dangling_of(tasks, t, j) ==
    IF j > Len(t.depends_on) THEN <<>>
    ELSE (IF t.depends_on[j] \notin index_keys(tasks)
          THEN <<ValidationError("DanglingDependency", t.id, t.depends_on[j])>>
          ELSE <<>>)
         \o dangling_of(tasks, t, j + 1)

\* Lines 125-129.
RECURSIVE dangling_errors(_, _)
dangling_errors(tasks, k) ==
    IF k > Len(tasks) THEN <<>>
    ELSE dangling_of(tasks, tasks[k], 1) \o dangling_errors(tasks, k + 1)

\* Lines 131-135: the ValueError of topological_sort becomes one error.
cycle_errors(tasks) ==
    IF topological_sort(tasks).raised
    THEN <<ValidationError("CycleDetected", None, None)>>
    ELSE <<>>

\* A slip in line 139: the kind of the task is not looked at.
lacks_test_any_kind(t) ==
    /\ status_or_suggested(t) \in {"design", "planned", "in-progress", "done", "blocked"}
    /\ t.test = NoTest

\* Lines 139-141: the task must define a test command and does not.
lacks_test(t) ==
    /\ t.kind \in Verifiable
    /\ status_or_suggested(t) \in {"design", "planned", "in-progress", "done", "blocked"}
    /\ t.test = NoTest

\* Lines 137-144.
RECURSIVE test_errors(_, _)
test_errors(tasks, k) ==
    IF k > Len(tasks) THEN <<>>
    ELSE (IF lacks_test(tasks[k])
          THEN <<ValidationError("MissingTestCommand", tasks[k].id, None)>>
          ELSE <<>>)
         \o test_errors(tasks, k + 1)

\* A slip in lines 117-144: a check is skipped once an earlier one has found errors.
validate_errors_fail_fast(tasks) ==
    LET dup == duplicate_errors(tasks, key_order(tasks), 1)
        dangling == dangling_errors(tasks, 1)
        cyc == cycle_errors(tasks)
    IN IF dup # <<>> THEN dup
       ELSE IF dangling # <<>> THEN dangling
       ELSE IF cyc # <<>> THEN cyc
       ELSE test_errors(tasks, 1)

\* Lines 114-144: errors, as the four checks leave it.
validate_errors(tasks) ==
    duplicate_errors(tasks, key_order(tasks), 1)
    \o dangling_errors(tasks, 1)
    \o cycle_errors(tasks)
    \o test_errors(tasks, 1)

(***************************************************************************)
(* main_validate applied to a lattice of up to three tasks whose ids are   *)
(* drawn from a, b, c (two tasks may carry the same id), with MaxEdges     *)
(* depends_on entries in all.  The tasks are plain tasks without a status  *)
(* and with a test command, except the last one listed, which has any kind *)
(* and one of four statuses, with or without a test command.               *)
(***************************************************************************)
ValidateStatus == {None, "suggested", "design", "done"}

InitValidate ==
    \E n \in 0..Len(AllIds) :
        \E ids \in [1..n -> Ids], dp \in DepConfigs(n),
           kind \in Kind, status \in ValidateStatus, test \in InitTest :
            Loaded([k \in 1..n |->
                      IF k = n THEN Task(ids[k], kind, status, dp[k], test)
                      ELSE Task(ids[k], "task", None, dp[k], "sh")])

\* Lines 146-150: the errors are printed and 1 is returned.
ValidateFailed ==
    /\ pc = "start"
    /\ validate_errors(lat) # <<>>
    /\ out' = [op |-> "validate", errors |-> validate_errors(lat)]
    /\ result' = 1
    /\ pc' = "returned"
    /\ UNCHANGED <<lat, disk, order, i, initial_status, demoted_due_to_deps,
                   any_fail, changed, log, loaded, run, prev>>

\* Lines 152-153: the lattice is valid.
ValidateOk ==
    /\ pc = "start"
    /\ validate_errors(lat) = <<>>
    /\ out' = [op |-> "validate", errors |-> <<>>]
    /\ result' = 0
    /\ pc' = "returned"
    /\ UNCHANGED <<lat, disk, order, i, initial_status, demoted_due_to_deps,
                   any_fail, changed, log, loaded, run, prev>>

NextValidate ==
    \/ ValidateFailed
    \/ ValidateOk

SpecValidate == InitValidate /\ [][NextValidate]_vars

(***************************************************************************)
(* Properties of the validation.                                           *)
(***************************************************************************)
\* The kinds of error the validation reported.
Reported == {out.errors[k].error : k \in DOMAIN out.errors}

\* Two tasks of the lattice carry the same id.
HasDuplicateId(tasks) ==
    \E j \in DOMAIN tasks, k \in DOMAIN tasks : j # k /\ tasks[j].id = tasks[k].id

\* A task or completion past the unset state has no test command.
HasMissingTest(tasks) ==
    \E k \in DOMAIN tasks :
        /\ tasks[k].kind \in {"task", "completion"}
        /\ tasks[k].status \in {"design", "planned", "in-progress", "done", "blocked"}
        /\ tasks[k].test = NoTest

\* C20: validation reports a duplicate id, a dangling dependency, a cycle and a
\* missing test command each whenever the lattice has one, whatever the other
\* checks found, and returns non-zero exactly when it reported an error.
C20_CollectsAllErrors ==
    (pc = "returned" /\ out.op = "validate") =>
        /\ HasDuplicateId(lat) => "DuplicateId" \in Reported
        /\ ~NoDangling(lat) => "DanglingDependency" \in Reported
        /\ HasCycle(lat) => "CycleDetected" \in Reported
        /\ HasMissingTest(lat) => "MissingTestCommand" \in Reported
        /\ result # 0 <=> out.errors # <<>>

\* C20's case: validation of a lattice that has all four faults at once reported
\* all four and returned non-zero.
C20_Witness ==
    /\ pc = "returned"
    /\ out.op = "validate"
    /\ HasDuplicateId(lat)
    /\ ~NoDangling(lat)
    /\ HasCycle(lat)
    /\ HasMissingTest(lat)
    /\ Reported = {"DuplicateId", "DanglingDependency", "CycleDetected",
                   "MissingTestCommand"}
    /\ result # 0

\* The number of errors of one kind the validation reported with the ids id, dep.
ReportedTimes(error, id, dep) ==
    Cardinality({k \in DOMAIN out.errors :
                    out.errors[k] = [error |-> error, id |-> id, dep |-> dep]})

\* The depends_on entries of a lattice: <<k, j>> is the j-th entry of the k-th task.
Entries(tasks) ==
    UNION {{<<k, j>> : j \in DOMAIN tasks[k].depends_on} : k \in DOMAIN tasks}

\* C21: validation reports DuplicateId once for every id that more than one task
\* carries and for no other id, and DanglingDependency once for every depends_on
\* entry of every task that is not the id of a task, naming the task and the entry.
C21_DuplicateAndDangling ==
    (pc = "returned" /\ out.op = "validate") =>
        /\ \A d \in Ids :
              ReportedTimes("DuplicateId", d, None) =
                 (IF Cardinality({k \in DOMAIN lat : lat[k].id = d}) > 1 THEN 1 ELSE 0)
        /\ \A t \in TaskIds(lat) \cup {None}, d \in Ids :
              ReportedTimes("DanglingDependency", t, d) =
                 (IF d \in TaskIds(lat) THEN 0
                  ELSE Cardinality({p \in Entries(lat) :
                                       /\ lat[p[1]].id = t
                                       /\ lat[p[1]].depends_on[p[2]] = d}))

\* C21's case: validation of a lattice in which an id is carried by two tasks and
\* another by one, and in which one task lists the same missing id twice.
C21_Witness ==
    /\ pc = "returned"
    /\ out.op = "validate"
    /\ \E d \in TaskIds(lat) : ReportedTimes("DuplicateId", d, None) = 1
    /\ \E d \in TaskIds(lat) : ReportedTimes("DuplicateId", d, None) = 0
    /\ \E t \in TaskIds(lat), d \in Ids : ReportedTimes("DanglingDependency", t, d) = 2

\* C22: validation reports MissingTestCommand for a task exactly when it is a task
\* or completion, its status is one of design, planned, in-progress, done, blocked
\* and it has no test command.
C22_MissingTestExact ==
    (pc = "returned" /\ out.op = "validate") =>
        \A d \in Ids :
            ReportedTimes("MissingTestCommand", d, None) =
                Cardinality({k \in DOMAIN lat :
                    /\ lat[k].id = d
                    /\ lat[k].kind \in {"task", "completion"}
                    /\ lat[k].status \in {"design", "planned", "in-progress",
                                          "done", "blocked"}
                    /\ lat[k].test = NoTest})

\* C22's case: validation reported MissingTestCommand for a completion that is done
\* and has no test command.
C22_Witness ==
    /\ pc = "returned"
    /\ out.op = "validate"
    /\ \E k \in DOMAIN lat :
          /\ lat[k].kind = "completion"
          /\ lat[k].status = "done"
          /\ lat[k].test = NoTest
          /\ ReportedTimes("MissingTestCommand", lat[k].id, None) = 1

\* The number of depends_on entries d of the tasks with id t.
References(tasks, d, t) ==
    Cardinality({p \in Entries(tasks) :
                    tasks[p[1]].id = t /\ tasks[p[1]].depends_on[p[2]] = d})

\* C23: iter_edges yields the pair (d, t) once for every depends_on entry d of a
\* task t that is the id of a task, and no pair for an entry that is not; the keys
\* of build_dependency_graph are the task ids, and t is listed under graph[d]
\* exactly when some depends_on entry of t is d: the edges iter_edges yields.
C23_EdgesAgree ==
    /\ (pc = "returned" /\ out.op = "iter_edges") =>
          \A d \in Ids, t \in Ids :
              Cardinality({k \in DOMAIN out.edges : out.edges[k] = <<d, t>>}) =
                 (IF d \in TaskIds(lat) THEN References(lat, d, t) ELSE 0)
    /\ (pc = "returned" /\ out.op = "build_dependency_graph") =>
          /\ DOMAIN out.graph = TaskIds(lat)
          /\ \A d \in TaskIds(lat), t \in Ids :
                Contains(out.graph[d], t) <=> References(lat, d, t) > 0

\* C23's case: iter_edges ran on a lattice with an entry that names a task and one
\* that names none, and yielded one pair.
C23_Witness ==
    /\ pc = "returned"
    /\ out.op = "iter_edges"
    /\ Len(out.edges) = 1
    /\ ~NoDangling(lat)
    /\ unique_ids(lat)

(***************************************************************************)
(* cli.py: main_next, `lattice next`.                                      *)
(***************************************************************************)
\* model.py, line 31: Optional[Literal["low", "medium", "high"]] = None
Priority == {None, "low", "medium", "high"}

\* A task with its priority.
PriorityTask(id, status, priority, depends_on) ==
    [id |-> id, kind |-> "task", status |-> status, priority |-> priority,
     depends_on |-> depends_on, test |-> "sh"]

\* The order of str: the place of a priority among the priorities.
str_rank(p) == CHOOSE k \in 1..3 : <<"high", "low", "medium">>[k] = p

\* Line 90: the key (t.priority or "medium", t.id) of one task is less than that of
\* another one, as tuples of strings compare.
key_less(t, u) ==
    LET pt == IF t.priority = None THEN "medium" ELSE t.priority
        pu == IF u.priority = None THEN "medium" ELSE u.priority
    IN \/ str_rank(pt) < str_rank(pu)
       \/ (pt = pu /\ id_rank(t.id) < id_rank(u.id))

\* sorted(ready, key=...): t is put before the first listed task with a greater key.
RECURSIVE insert_by_key(_, _)
insert_by_key(seq, t) ==
    IF seq = <<>> THEN <<t>>
    ELSE IF key_less(t, Head(seq)) THEN <<t>> \o seq
    ELSE <<Head(seq)>> \o insert_by_key(Tail(seq), t)

RECURSIVE sorted_by_key(_, _, _)
sorted_by_key(ready, k, acc) ==
    IF k > Len(ready) THEN acc
    ELSE sorted_by_key(ready, k + 1, insert_by_key(acc, ready[k]))

(***************************************************************************)
(* main_next applied to a lattice of the tasks a, b, c or a prefix of      *)
(* them, each of kind task, done or without a status, with any priority,   *)
(* with MaxEdges depends_on entries in all.                                *)
(***************************************************************************)
InitNext ==
    \E n \in 0..Len(AllIds) :
        \E dp \in DepConfigs(n), st \in [1..n -> InitStatus],
           pr \in [1..n -> Priority] :
            Loaded([k \in 1..n |-> PriorityTask(AllIds[k], st[k], pr[k], dp[k])])

\* Lines 85-87: no task is ready.
NextNoneReady ==
    /\ pc = "start"
    /\ compute_ready_tasks(lat) = <<>>
    /\ out' = [op |-> "next", listed |-> <<>>]
    /\ result' = 0
    /\ pc' = "returned"
    /\ UNCHANGED <<lat, disk, order, i, initial_status, demoted_due_to_deps,
                   any_fail, changed, log, loaded, run, prev>>

\* Lines 89-94: the ready tasks are printed in the order of sorted().
NextListed ==
    /\ pc = "start"
    /\ compute_ready_tasks(lat) # <<>>
    /\ out' = [op |-> "next",
               listed |-> sorted_by_key(compute_ready_tasks(lat), 1, <<>>)]
    /\ result' = 0
    /\ pc' = "returned"
    /\ UNCHANGED <<lat, disk, order, i, initial_status, demoted_due_to_deps,
                   any_fail, changed, log, loaded, run, prev>>

NextNext ==
    \/ NextNoneReady
    \/ NextListed

SpecNext == InitNext /\ [][NextNext]_vars

\* The place of a priority in the order high, medium, low, unset.
PriorityPlace(p) ==
    IF p = "high" THEN 1 ELSE IF p = "medium" THEN 2 ELSE IF p = "low" THEN 3 ELSE 4

\* C24: the ready tasks are listed by priority in the order high, medium, low,
\* unset, and by id within one priority.
C24_PriorityOrder ==
    (pc = "returned" /\ out.op = "next") =>
        \A j \in DOMAIN out.listed, k \in DOMAIN out.listed :
            j < k =>
               \/ PriorityPlace(out.listed[j].priority) < PriorityPlace(out.listed[k].priority)
               \/ /\ out.listed[j].priority = out.listed[k].priority
                  /\ id_rank(out.listed[j].id) < id_rank(out.listed[k].id)

(***************************************************************************)
(* Verification in either mode: on a lattice as Init draws it, main_test   *)
(* runs the whole lattice (and may be run again) or a single task.         *)
(***************************************************************************)
NextVerify ==
    \/ Next
    \/ NextSingle

SpecVerify == Init /\ [][NextVerify]_vars

\* The tasks of now differ from those of before in their statuses at most.
OnlyStatusDiffers(before, now) ==
    /\ Len(now) = Len(before)
    /\ \A k \in DOMAIN before : now[k] = [before[k] EXCEPT !.status = now[k].status]

\* C25: no step of a verification, in either mode, executes the test of a task of
\* kind epic or subproject or changes such a task; no step changes, in memory or
\* in the file, anything of a task but its status; and single-task verification
\* of a task of kind epic or subproject ends with InvalidKind.
C25_OnlyVerifiableKinds ==
    /\ [][/\ OnlyStatusDiffers(lat, lat')
          /\ OnlyStatusDiffers(disk, disk')
          /\ \A k \in DOMAIN lat :
                lat[k].kind \in {"epic", "subproject"} =>
                   /\ lat'[k] = lat[k]
                   /\ disk'[k] = disk[k]
                   /\ lat[k].id \notin RunIds(log')
         ]_vars
    /\ []((/\ pc = "returned"
           /\ out.task_id \in TaskIds(loaded)
           /\ Target.kind \in {"epic", "subproject"}) => out.error = "InvalidKind")

\* C25's case: a whole-lattice run has executed a test and ended; the lattice has
\* an epic with a test command that is done although a dependency of it is not,
\* and the epic is unchanged.
C25_Witness ==
    /\ pc = "done"
    /\ RunCount(log) > 0
    /\ \E k \in DOMAIN loaded :
          /\ loaded[k].kind = "epic"
          /\ loaded[k].test # NoTest
          /\ loaded[k].status = "done"
          /\ ~AllDepsDone(loaded, loaded[k])
          /\ lat[k] = loaded[k]
          /\ disk[k] = loaded[k]

(***************************************************************************)
(* Loading project.yaml: load_lattice of io.py builds the Lattice of       *)
(* model.py, load_lattice of lattice/io.py the Lattice of lattice/model.py *)
(* (the editor's).  The file holds up to three tasks whose ids are drawn   *)
(* from a, b, c, with MaxEdges depends_on entries in all; the tasks are    *)
(* done, except the last one listed, which is done, todo or has no status. *)
(***************************************************************************)
\* The statuses a file may give a task: None and done are statuses of model.py,
\* done and todo are statuses of lattice/model.py.
FileStatus == {None, "done", "todo"}

\* model.py, lines 27 and 30: the Literal types of kind and status.
core_accepts(tasks) ==
    \A k \in DOMAIN tasks :
        /\ tasks[k].kind \in Kind
        /\ tasks[k].status \in Status \cup {None}

\* lattice/model.py, lines 17-18 and 35-42: the patterns of kind and status (status
\* is required) and the validator unique_ids.
editor_accepts(tasks) ==
    /\ \A k \in DOMAIN tasks :
          /\ tasks[k].kind \in {"subproject", "epic", "task", "spike", "milestone"}
          /\ tasks[k].status \in {"todo", "in-progress", "blocked", "done", "planned"}
    /\ unique_ids(tasks)

InitFile ==
    /\ \E n \in 0..Len(AllIds) :
          \E ids \in [1..n -> Ids], dp \in DepConfigs(n), status \in FileStatus :
             disk = [k \in 1..n |->
                       Task(ids[k], "task", IF k = n THEN status ELSE "done",
                            dp[k], "sh")]
    /\ lat = <<>>
    /\ loaded = <<>>
    /\ pc = "file"
    /\ order = <<>>
    /\ i = 0
    /\ initial_status = <<>>
    /\ demoted_due_to_deps = {}
    /\ any_fail = FALSE
    /\ changed = FALSE
    /\ result = -1
    /\ log = <<>>
    /\ run = 1
    /\ prev = "none"
    /\ out = None

\* What a load reports: which loader it was and whether it raised.
LoadReport(loader, raised) == [op |-> "load", loader |-> loader, raised |-> raised]

\* io.py, load_lattice: Lattice(**data) accepts the file.
LoadLattice ==
    /\ pc = "file"
    /\ core_accepts(disk)
    /\ lat' = disk
    /\ loaded' = disk
    /\ out' = LoadReport("core", FALSE)
    /\ pc' = "start"
    /\ UNCHANGED <<disk, order, i, initial_status, demoted_due_to_deps,
                   any_fail, changed, result, log, run, prev>>

\* io.py, load_lattice: Lattice(**data) raises a ValidationError.
LoadRejected ==
    /\ pc = "file"
    /\ ~core_accepts(disk)
    /\ out' = LoadReport("core", TRUE)
    /\ pc' = "rejected"
    /\ UNCHANGED <<lat, disk, order, i, initial_status, demoted_due_to_deps,
                   any_fail, changed, result, log, loaded, run, prev>>

\* lattice/io.py, load_lattice: Lattice(**data) of the editor accepts the file.
EditorLoadLattice ==
    /\ pc = "file"
    /\ editor_accepts(disk)
    /\ lat' = disk
    /\ loaded' = disk
    /\ out' = LoadReport("editor", FALSE)
    /\ pc' = "editor"
    /\ UNCHANGED <<disk, order, i, initial_status, demoted_due_to_deps,
                   any_fail, changed, result, log, run, prev>>

\* lattice/io.py, load_lattice: Lattice(**data) of the editor raises.
EditorLoadRejected ==
    /\ pc = "file"
    /\ ~editor_accepts(disk)
    /\ out' = LoadReport("editor", TRUE)
    /\ pc' = "rejected"
    /\ UNCHANGED <<lat, disk, order, i, initial_status, demoted_due_to_deps,
                   any_fail, changed, result, log, loaded, run, prev>>

\* A load, and after a load by io.py the operations of cli.py on the lattice.
NextLoad ==
    \/ LoadLattice
    \/ LoadRejected
    \/ EditorLoadLattice
    \/ EditorLoadRejected
    \/ CallTopologicalSort
    \/ CallComputeReady
    \/ ValidateFailed
    \/ ValidateOk

SpecLoad == InitFile /\ [][NextLoad]_vars

\* C26, as written: a file in which two tasks share an id is never loaded, and no
\* operation runs on it.
C26_DuplicatesRejected ==
    HasDuplicateId(disk) => pc \in {"file", "rejected"}

\* C26, amended: the editor's loader rejects a file in which two tasks share an
\* id; the loader of io.py rejects a file only for a status that is none of its
\* own, so it loads a file with a shared id, and validation then reports
\* DuplicateId and returns non-zero.
C26_DuplicatesRejectedByEditor ==
    /\ pc = "editor" => ~HasDuplicateId(lat)
    /\ (pc = "rejected" /\ out.loader = "core") =>
          \E k \in DOMAIN disk : disk[k].status = "todo"
    /\ (pc = "returned" /\ out.op = "validate" /\ HasDuplicateId(lat)) =>
          ("DuplicateId" \in Reported /\ result # 0)

\* C26's case: the editor's loader has rejected a file whose only fault is that
\* two tasks share an id.
C26_Witness ==
    /\ pc = "rejected"
    /\ out.loader = "editor"
    /\ HasDuplicateId(disk)
    /\ \A k \in DOMAIN disk : disk[k].status = "done"
    /\ NoDangling(disk)
    /\ ~HasCycle(disk)

\* ---------------------------------------------------------------------------
\* detect_cycles: the reported cycles
\* ---------------------------------------------------------------------------

\* The cycles a finished call of detect_cycles reported.
ReportedCycles ==
    IF pc = "returned" /\ out.op = "detect_cycles" THEN out.cycles ELSE <<>>

\* v is an entry of the depends_on list of a task with id u.
IsEdge(tasks, u, v) ==
    \E k \in DOMAIN tasks : tasks[k].id = u /\ Contains(tasks[k].depends_on, v)

\* x and y lie on a common closed walk of the depends_on relation.
SameLoop(tasks, x, y) ==
    /\ y \in ReachN(tasks, DepsOf(tasks, x), Len(tasks))
    /\ x \in ReachN(tasks, DepsOf(tasks, y), Len(tasks))

\* C27: every cycle reported by detect_cycles closes the loop: its first id is
\* its last id, and each consecutive pair (u, v) of the list is a depends_on
\* edge of the lattice (v is in u's depends_on).
C27_CycleClosesLoop ==
    \A n \in DOMAIN ReportedCycles :
        LET c == ReportedCycles[n] IN
        /\ Len(c) >= 2
        /\ c[1] = c[Len(c)]
        /\ \A k \in 1..(Len(c) - 1) : IsEdge(lat, c[k], c[k + 1])

\* C27 witness: a reported cycle through three different tasks.
C27_Witness ==
    \E n \in DOMAIN ReportedCycles :
        /\ Len(ReportedCycles[n]) = 4
        /\ Cardinality({ReportedCycles[n][k] : k \in 1..4}) = 3

\* C28: detect_cycles returns the empty list exactly when the depends_on graph
\* is acyclic, and every loop of the graph has a reported cycle through one of
\* its tasks, so that separate loops are each reported.
C28_AllCyclesReported ==
    (pc = "returned" /\ out.op = "detect_cycles") =>
        /\ (out.cycles = <<>>) <=> ~HasCycle(lat)
        /\ \A x \in TaskIds(lat) :
              OnCycle(lat, x) =>
                 \E n \in DOMAIN out.cycles :
                    \E k \in DOMAIN out.cycles[n] : SameLoop(lat, x, out.cycles[n][k])

\* C28 witness: two separate loops, one through two tasks and one through a
\* third task alone, and a reported cycle for each.
C28_Witness ==
    /\ Len(ReportedCycles) >= 2
    /\ \E x, y \in TaskIds(lat) :
          /\ OnCycle(lat, x) /\ OnCycle(lat, y)
          /\ ~SameLoop(lat, x, y)
          /\ \E z \in TaskIds(lat) \ {x} : SameLoop(lat, x, z)

\* ---------------------------------------------------------------------------
\* `lattice init` (cli.py, main_init)
\*
\* In SpecInit, disk is what lies at out_path = repo / "project.yaml": <<>>
\* when there is no such file, and otherwise the one file's content, a record
\* of the project's metadata and the tasks.
\* ---------------------------------------------------------------------------

\* cli.py, line 50: the statuses main_init gives a new project.
DefaultStatuses == <<"suggested", "design", "planned", "in-progress", "done", "blocked">>

\* The values of --id and of --name: not given, empty, or a name.
InitArgs == {None, "", "p"}
\* repo.name, the last part of the resolved --repo path.
RepoNames == {"r"}
\* The statuses lists of the project.yaml files main_init may find.
FileStatuses == {DefaultStatuses, <<"todo", "done">>}

\* Python's `x or y` on an optional string: y when x is None or empty.
py_or(x, y) == IF x \in {None, ""} THEN y ELSE x

\* cli.py, lines 45-53, and io.py, save_lattice: the content written for
\* Lattice(project=ProjectMeta(id=pid, name=name, ..., statuses=[...]), tasks=[]).
new_lattice(pid, name) ==
    [project |-> [id |-> pid, name |-> name, owner |-> None,
                  description |-> None, statuses |-> DefaultStatuses],
     tasks |-> <<>>]

\* A slip in line 56: the test for an existing file never succeeds.
path_exists_never(files) == FALSE

\* cli.py, line 56: out_path.exists().
path_exists(files) == files # <<>>

\* The directory before `lattice init`: no project.yaml, or one with some
\* project and tasks in it.
InitInit ==
    /\ \/ disk = <<>>
       \/ \E n \in 0..2 :
             \E ids \in [1..n -> Ids], dp \in SortDepConfigs(n),
                pid \in {"p", "q"}, st \in FileStatuses :
                disk = <<[project |-> [id |-> pid, name |-> pid, owner |-> None,
                                       description |-> None, statuses |-> st],
                          tasks |-> [k \in 1..n |->
                                        Task(ids[k], "task", "done", dp[k], "sh")]]>>
    /\ lat = <<>>
    /\ loaded = <<>>
    /\ pc = "start"
    /\ order = <<>>
    /\ i = 0
    /\ initial_status = <<>>
    /\ demoted_due_to_deps = {}
    /\ any_fail = FALSE
    /\ changed = FALSE
    /\ result = -1
    /\ log = <<>>
    /\ run = 1
    /\ prev = "none"
    /\ out = None

\* cli.py, lines 55-58: project.yaml is there; main_init prints its refusal
\* and returns 1.
MainInitRefused ==
    /\ pc \in {"start", "returned"}
    /\ path_exists(disk)
    /\ \E arg_id \in InitArgs, arg_name \in InitArgs, repo \in RepoNames :
          out' = [op |-> "init", id |-> arg_id, name |-> arg_name, repo |-> repo,
                  stderr |-> "refusing to overwrite"]
    /\ result' = 1
    /\ pc' = "returned"
    /\ UNCHANGED <<lat, disk, order, i, initial_status, demoted_due_to_deps,
                   any_fail, changed, log, loaded, run, prev>>

\* cli.py, lines 42-53 and 60-62: no project.yaml; the new lattice is saved and
\* main_init returns 0.
MainInitCreated ==
    /\ pc \in {"start", "returned"}
    /\ ~path_exists(disk)
    /\ \E arg_id \in InitArgs, arg_name \in InitArgs, repo \in RepoNames :
          LET pid == py_or(arg_id, repo)
              name == py_or(arg_name, pid)
          IN  /\ disk' = <<new_lattice(pid, name)>>
              /\ out' = [op |-> "init", id |-> arg_id, name |-> arg_name,
                         repo |-> repo, stderr |-> ""]
    /\ result' = 0
    /\ pc' = "returned"
    /\ UNCHANGED <<lat, order, i, initial_status, demoted_due_to_deps,
                   any_fail, changed, log, loaded, run, prev>>

NextInit ==
    \/ MainInitRefused
    \/ MainInitCreated

SpecInit == InitInit /\ [][NextInit]_vars

\* A call of main_init returns in this step.
InitReturns == pc' = "returned" /\ out'.op = "init"

\* C29: init refuses to overwrite.  When project.yaml exists, main_init returns
\* a non-zero result and leaves the file as it was; when it does not exist,
\* main_init creates a lattice with no tasks and the six default statuses and
\* returns 0.
C29_InitRefusesOverwrite ==
    [][InitReturns =>
          /\ disk # <<>> => (result' # 0 /\ disk' = disk)
          /\ disk = <<>> =>
                /\ result' = 0
                /\ Len(disk') = 1
                /\ disk'[1].tasks = <<>>
                /\ Len(disk'[1].project.statuses) = 6
                /\ {disk'[1].project.statuses[k] : k \in 1..6} = Status]_vars

\* C29 witness: main_init was refused on a project.yaml that holds tasks.
C29_Witness ==
    /\ pc = "returned" /\ out.op = "init"
    /\ result # 0
    /\ disk # <<>>
    /\ disk[1].tasks # <<>>

\* ---------------------------------------------------------------------------
\* `lattice test --complete`: the order of the tests of one run
\* ---------------------------------------------------------------------------

\* C30: whole-lattice verification executes tests in dependency order.  If in
\* one run the tests of a task t and of one of its dependencies d are both
\* executed, d's test is executed, and d's status written, before t's test.
C30_DependencyOrder ==
    \A p \in DOMAIN log, q \in DOMAIN log :
        (/\ log[p].ev = "run"
         /\ log[q].ev = "run"
         /\ IsEdge(loaded, log[p].id, log[q].id))
        => /\ q < p
           /\ \A m \in DOMAIN log :
                 (log[m].ev = "status" /\ log[m].id = log[q].id) => m < p

\* C30 witness: a run executed the test of a dependency, wrote its status, and
\* then executed the test of the task that depends on it.
C30_Witness ==
    \E q \in DOMAIN log, m \in DOMAIN log, p \in DOMAIN log :
        /\ q < m /\ m < p
        /\ log[q].ev = "run"
        /\ log[m].ev = "status" /\ log[m].id = log[q].id /\ log[m].arg = "done"
        /\ log[p].ev = "run"
        /\ IsEdge(loaded, log[p].id, log[q].id)

\* ---------------------------------------------------------------------------
\* `lattice test --complete`: the lattice a run leaves behind
\* ---------------------------------------------------------------------------

\* C31: post-run consistency.  After a run on an acyclic lattice has walked its
\* two passes and finished, every task or completion whose status is done has all of its dependencies
\* done, whatever the initial statuses, the test commands (tasks with no test
\* included) and the outcomes of the tests.
C31_PostRunConsistency ==
    (pc = "done" /\ Walked /\ ~HasCycle(loaded)) =>
        \A k \in DOMAIN lat :
            (lat[k].kind \in {"task", "completion"} /\ lat[k].status = "done")
                => AllDepsDone(lat, lat[k])

\* The task x depends on the task y, directly or through other tasks.
DependsOnTransitively(tasks, x, y) ==
    y \in ReachN(tasks, DepsOf(tasks, x), Len(tasks))

\* C32: failure propagation.  If a task's test failed during the run, no task
\* that transitively depends on it had its test executed in the run, and none
\* of them that is a task or completion ends the run done, whatever the kinds
\* and test commands of the tasks in between.
C32_FailurePropagates ==
    pc = "done" =>
        \A f \in FailedIds(log), x \in TaskIds(lat) :
            DependsOnTransitively(loaded, x, f) =>
                /\ x \notin RunIds(log)
                /\ TaskWithId(lat, x).kind \in {"task", "completion"}
                      => StatusOf(lat, x) # "done"

\* The number of events of kind ev the log holds for the task tid.
EventCount(l, ev, tid) ==
    Cardinality({k \in DOMAIN l : l[k].ev = ev /\ l[k].id = tid})

\* C33: in one run each task's status is written at most once and each task's
\* test is executed at most once; so a task demoted in either pass is not
\* promoted later in the run, and a task set to done is not demoted later.
C33_WrittenAtMostOnce ==
    \A tid \in TaskIds(loaded) :
        /\ EventCount(log, "status", tid) <= 1
        /\ EventCount(log, "run", tid) <= 1
        /\ \A j \in DOMAIN log, k \in DOMAIN log :
              (j < k /\ log[j].ev = "status" /\ log[j].id = tid
                     /\ log[k].ev = "status" /\ log[k].id = tid)
                 => (log[j].arg = "done" <=> log[k].arg = "done")

\* C33 witness: the run has ended; a task demoted in pass 1 has a test command
\* and all its dependencies done by now and is still planned, a second task
\* was set to done by its test, and a third task was reached later in the walk.
C33_Witness ==
    /\ pc = "done"
    /\ \E tid \in demoted_due_to_deps, d \in TaskIds(loaded) :
          /\ TaskWithId(lat, tid).test # NoTest
          /\ AllDepsDone(lat, TaskWithId(lat, tid))
          /\ StatusOf(lat, tid) = "planned"
          /\ EventCount(log, "status", tid) = 1
          /\ Contains(TaskWithId(lat, tid).depends_on, d)
          /\ EventCount(log, "run", d) = 1
          /\ EventCount(log, "status", d) = 1
          /\ StatusOf(lat, d) = "done"
    /\ Len(order) = 3

\* ---------------------------------------------------------------------------
\* The dependency gates of the two modes of `lattice test`
\* ---------------------------------------------------------------------------

\* C34: single-task mode and whole-lattice mode apply the same dependency
\* gate.  For a task or completion with a test command, single-task
\* verification executes the test exactly when the check of pass 2 on the
\* current statuses (deps_done_current) allows it, a depends_on entry that
\* names no task included.
C34_SameGate ==
    (/\ pc = "returned" /\ out.op = "test_single"
     /\ out.task_id \in TaskIds(loaded)
     /\ Target.kind \in {"task", "completion"}
     /\ Target.test # NoTest) =>
        (RunCount(log) > 0 <=> deps_done_current(loaded, Target))

\* ---------------------------------------------------------------------------
\* `lattice test --complete`, run after run
\* ---------------------------------------------------------------------------

\* C35: convergence.  On an acyclic lattice without dangling dependencies whose
\* tasks are all tasks or completions with a test command, whatever their
\* statuses at the start, two consecutive runs in which every command succeeds
\* leave every task done, and a third such run changes no status and saves
\* nothing.
C35_Convergence ==
    (/\ pc = "done"
     /\ ~HasCycle(loaded)
     /\ NoDangling(loaded)
     /\ \A k \in DOMAIN loaded :
           loaded[k].kind \in {"task", "completion"} /\ loaded[k].test # NoTest
     /\ FailedIds(log) = {}) =>
        /\ run >= 2 => \A k \in DOMAIN lat : lat[k].status = "done"
        /\ run >= 3 => (lat = loaded /\ Saves(log) = 0 /\ disk = loaded)

\* ---------------------------------------------------------------------------
\* The two sorts side by side
\* ---------------------------------------------------------------------------

\* seq lists every task id of tasks once, each after the tasks it depends on.
ValidOrder(tasks, seq) ==
    /\ ListsOnce(seq, TaskIds(tasks))
    /\ \A x \in TaskIds(tasks) : \A d \in DepsOf(tasks, x) :
          PosIn(seq, d) < PosIn(seq, x)

\* C36: the two sorts agree.  graph.topological_sort and lattice.io.topo_sort
\* succeed on exactly the same lattices, lattices with dangling or repeated
\* depends_on entries included, and when both succeed both orders are valid
\* topological orders of all task ids.
C36_SortsAgree ==
    (pc = "returned" /\ out.op = "both_sorts") =>
        /\ out.graph.raised <=> out.editor.raised
        /\ (~out.graph.raised /\ ~out.editor.raised) =>
              (ValidOrder(lat, out.graph.order) /\ ValidOrder(lat, out.editor.order))

\* ---------------------------------------------------------------------------
\* The loops of topological_sort and detect_cycles, one iteration at a time,
\* next to one whole-lattice run.  While a loop runs, out holds its locals.
\* ---------------------------------------------------------------------------

\* graph.py, lines 42-52: idx, incoming, queue and result before the loop.
SortStart ==
    /\ pc = "start"
    /\ LET incoming == count_incoming(lat, 1, [d \in index_keys(lat) |-> 0]) IN
       out' = [op |-> "topological_sort_loop",
               incoming |-> incoming,
               queue |-> zero_incoming(key_order(lat), 1, incoming),
               sorted |-> <<>>]
    /\ pc' = "kahn"
    /\ UNCHANGED <<lat, disk, order, i, initial_status, demoted_due_to_deps,
                   any_fail, changed, result, log, loaded, run, prev>>

\* graph.py, lines 54-61: one iteration of `while queue`.
SortStep ==
    /\ pc = "kahn"
    /\ out.queue # <<>>
    /\ LET n == out.queue[Len(out.queue)]
           r == relax(lat, n, 1, out.incoming,
                      SubSeq(out.queue, 1, Len(out.queue) - 1))
       IN out' = [out EXCEPT !.incoming = r.incoming,
                             !.queue = r.queue,
                             !.sorted = Append(@, n)]
    /\ UNCHANGED <<lat, disk, pc, order, i, initial_status, demoted_due_to_deps,
                   any_fail, changed, result, log, loaded, run, prev>>

\* A slip in lines 63-64: when tasks are left over, the loop is started over
\* instead of raising.
SortReturn_starts_over ==
    /\ pc = "kahn"
    /\ out.queue = <<>>
    /\ LET raised == Len(out.sorted) # Cardinality(index_keys(lat))
           incoming == count_incoming(lat, 1, [d \in index_keys(lat) |-> 0])
       IN IF raised
          THEN /\ out' = [out EXCEPT !.incoming = incoming,
                                     !.queue = zero_incoming(key_order(lat), 1, incoming),
                                     !.sorted = <<>> ]
               /\ pc' = pc
          ELSE /\ out' = [op |-> "topological_sort_loop", raised |-> FALSE,
                          order |-> out.sorted]
               /\ pc' = "returned"
    /\ UNCHANGED <<lat, disk, order, i, initial_status, demoted_due_to_deps,
                   any_fail, changed, result, log, loaded, run, prev>>

\* graph.py, lines 63-65: the queue is empty; raise or return the order.
SortReturn ==
    /\ pc = "kahn"
    /\ out.queue = <<>>
    /\ LET raised == Len(out.sorted) # Cardinality(index_keys(lat)) IN
       out' = [op |-> "topological_sort_loop", raised |-> raised,
               order |-> IF raised THEN <<>> ELSE out.sorted]
    /\ pc' = "returned"
    /\ UNCHANGED <<lat, disk, order, i, initial_status, demoted_due_to_deps,
                   any_fail, changed, result, log, loaded, run, prev>>

\* lattice/io.py, lines 32-41: a call of visit(node) up to its for-loop.  It
\* returns at once for a node in perm or in temp (recording a cycle for the
\* latter); otherwise it marks the node and a new frame starts at its first
\* dependency.
enter_visit(st, node) ==
    IF node \in st.perm THEN st
    ELSE IF node \in st.temp
    THEN (IF Contains(st.stack, node) THEN record_cycle(st, node) ELSE st)
    ELSE [st EXCEPT !.temp = @ \cup {node},
                    !.stack = Append(@, node),
                    !.frames = Append(@, [node |-> node, j |-> 1])]

\* graph.get(node, []) for the node of the innermost call of visit.
frame_deps(st) ==
    LET node == st.frames[Len(st.frames)].node IN
    IF node \in index_keys(lat) THEN cycle_graph(lat)[node] ELSE <<>>

\* lattice/io.py, lines 25-30: graph and the four locals; frames is the chain
\* of calls of visit that have not returned, k the place of the outer loop.
CyclesStart ==
    /\ pc = "start"
    /\ unique_ids(lat)
    /\ out' = [op |-> "detect_cycles_loop", temp |-> {}, perm |-> {},
               stack |-> <<>>, cycles |-> <<>>, frames |-> <<>>, k |-> 1]
    /\ pc' = "dfs"
    /\ UNCHANGED <<lat, disk, order, i, initial_status, demoted_due_to_deps,
                   any_fail, changed, result, log, loaded, run, prev>>

\* lattice/io.py, lines 48-50: one iteration of `for n in graph`.
CyclesRoot ==
    /\ pc = "dfs"
    /\ out.frames = <<>>
    /\ out.k <= Len(key_order(lat))
    /\ LET n == key_order(lat)[out.k]
           advanced == [out EXCEPT !.k = @ + 1]
       IN out' = IF n \in out.perm THEN advanced ELSE enter_visit(advanced, n)
    /\ UNCHANGED <<lat, disk, pc, order, i, initial_status, demoted_due_to_deps,
                   any_fail, changed, result, log, loaded, run, prev>>

\* lattice/io.py, lines 42-43: one iteration of `for dep in graph.get(node, [])`.
CyclesVisitDep ==
    /\ pc = "dfs"
    /\ out.frames # <<>>
    /\ out.frames[Len(out.frames)].j <= Len(frame_deps(out))
    /\ LET dep == frame_deps(out)[out.frames[Len(out.frames)].j]
           advanced == [out EXCEPT !.frames[Len(out.frames)].j = @ + 1]
       IN out' = enter_visit(advanced, dep)
    /\ UNCHANGED <<lat, disk, pc, order, i, initial_status, demoted_due_to_deps,
                   any_fail, changed, result, log, loaded, run, prev>>

\* lattice/io.py, lines 44-46: the for-loop is over; visit returns.
CyclesLeave ==
    /\ pc = "dfs"
    /\ out.frames # <<>>
    /\ out.frames[Len(out.frames)].j > Len(frame_deps(out))
    /\ LET node == out.frames[Len(out.frames)].node IN
       out' = [out EXCEPT !.stack = SubSeq(@, 1, Len(@) - 1),
                          !.temp = @ \ {node},
                          !.perm = @ \cup {node},
                          !.frames = SubSeq(@, 1, Len(@) - 1)]
    /\ UNCHANGED <<lat, disk, pc, order, i, initial_status, demoted_due_to_deps,
                   any_fail, changed, result, log, loaded, run, prev>>

\* lattice/io.py, line 51: return cycles.
CyclesReturn ==
    /\ pc = "dfs"
    /\ out.frames = <<>>
    /\ out.k > Len(key_order(lat))
    /\ out' = [op |-> "detect_cycles_loop", cycles |-> out.cycles]
    /\ pc' = "returned"
    /\ UNCHANGED <<lat, disk, order, i, initial_status, demoted_due_to_deps,
                   any_fail, changed, result, log, loaded, run, prev>>

\* One step of a whole-lattice run.
RunStep ==
    \/ StartCycle
    \/ StartSorted
    \/ Pass1Demote
    \/ Pass1Keep
    \/ Pass1Exit
    \/ Pass2SkipKind
    \/ Pass2SkipNoTest
    \/ Pass2SkipDemoted
    \/ Pass2DepsNotDone
    \/ Pass2RunTest
    \/ Finish

NextTermination ==
    \/ RunStep
    \/ SortStart
    \/ SortStep
    \/ SortReturn
    \/ CyclesStart
    \/ CyclesRoot
    \/ CyclesVisitDep
    \/ CyclesLeave
    \/ CyclesReturn

\* The lattices the loops are followed on: the tasks a, b or a prefix of them,
\* each done or not, with depends_on lists over a, b, c (so c is a dangling
\* reference); the last task is a task or an epic, with or without a test.
LoopIds == <<"a", "b">>
LoopKind == {"task", "epic"}

InitTermination ==
    /\ \E n \in 0..Len(LoopIds) :
         \E dp \in DepConfigs(n), st \in [1..n -> InitStatus],
            kind \in LoopKind, test \in InitTest :
            lat = [k \in 1..n |->
                     IF k = n THEN Task(LoopIds[k], kind, st[k], dp[k], test)
                     ELSE Task(LoopIds[k], "task", st[k], dp[k], "sh")]
    /\ disk = lat
    /\ loaded = lat
    /\ pc = "start"
    /\ order = <<>>
    /\ i = 0
    /\ initial_status = <<>>
    /\ demoted_due_to_deps = {}
    /\ any_fail = FALSE
    /\ changed = FALSE
    /\ result = -1
    /\ log = <<>>
    /\ run = 1
    /\ prev = "none"
    /\ out = None

\* A sequential program takes its next step: a test command that was started
\* exits, and so does every statement of the three functions.
SpecTermination ==
    InitTermination /\ [][NextTermination]_vars /\ WF_vars(NextTermination)

\* The operation that was started has returned: a run with result 0 or 1, the
\* sort with an order or its error, the search with its list of cycles.
Terminated ==
    \/ pc = "done" /\ result \in {0, 1}
    \/ pc = "returned" /\ out.op \in {"topological_sort_loop", "detect_cycles_loop"}

\* C37: termination.  On every lattice, cyclic or not, the loop of
\* topological_sort and the search of detect_cycles come to their return, and
\* a whole-lattice run, each test command exiting, comes to return 0 or 1,
\* having executed at most one test per task.
C37_Termination ==
    /\ <>Terminated
    /\ [](\A tid \in TaskIds(loaded) : EventCount(log, "run", tid) <= 1)

\* C37 witness: the search of detect_cycles returned on a lattice in which two
\* tasks depend on each other, with the cycle it found.
C37_Witness ==
    /\ pc = "returned"
    /\ out.op = "detect_cycles_loop"
    /\ out.cycles # <<>>
    /\ \E x \in TaskIds(lat), y \in TaskIds(lat) :
          x # y /\ y \in DepsOf(lat, x) /\ x \in DepsOf(lat, y)

====
